---- MODULE Spec2Model ----
(***************************************************************************)
(* Model of the wa_meow HTTP gateway (cmd/server/main.go): the session     *)
(* manager, the pairing pipeline, the inbound event fan-out and the two    *)
(* SSE streams.  Every HTTP request runs in a request slot (a goroutine of *)
(* net/http); pairing pumps are separate goroutines.                       *)
(***************************************************************************)
EXTENDS Integers, Sequences, FiniteSets, TLC

\* ---------------------------------------------------------------- bounds
NReq == 2
MaxUser == 1
MaxSessions == 2
MaxPumps == 1
MaxCodes == 2
MaxEvents == 2
MaxFrames == 2
FillCodes == 11
FillEvents == 102
MaxPlain == 3

\* ------------------------------------------------------ program constants
QRChannelCap == 10
LoginDoneCap == 1
EventChanCap == 100

Req == 1..NReq
Users == 1..MaxUser
\* the user ids a request can carry: 0 is what an absent or unparsable
\* user_id leaves in the handler's variable
UserIDs == 0..MaxUser
Sids == 1..MaxSessions
NoSession == 0
NoReq == 0
Nil == <<>>

VARIABLES
  sessions,    \* m.sessions: user id -> session instance (NoSession if absent)
  mu,          \* m.mu: [w |-> request holding the write lock, r |-> read holders]
  nsess,       \* number of UserSession instances constructed so far
  UserID,      \* UserSession.UserID, per instance
  LastUsed,    \* UserSession.LastUsed, per instance: the requests that are
               \* in the middle of assigning it
  QRChannel,   \* UserSession.QRChannel, per instance
  LoginDone,   \* UserSession.LoginDone, per instance
  EventChan,   \* UserSession.EventChan, per instance
  connected,   \* upstream client: connection state, per instance
  storeID,     \* upstream client: Store.ID != nil, per instance
  deviceDB,    \* user_<U>.db on disk holds a device identity
  backup,      \* the remote backup of user_<U>.db: "none", or a copy of a
               \* DB without ("unpaired") or with ("paired") an identity
  eventHandlers, \* upstream client: an event handler is registered, per instance
  Container,   \* UserSession.Container: the store handle is open, per instance
  req,         \* request slots: position and locals of each HTTP handler
  pumps,       \* pairing pump goroutines spawned by createSessionHandler
  nevents,     \* number of upstream events delivered so far
  alive,       \* instances constructed and not deleted from the map
  gocRet,      \* instances returned by GetOrCreateSession since the last removal
  enqLog,      \* per instance: payloads accepted by EventChan, in order
  subs,        \* per instance: number of /events streams ever attached
  lastEvt,     \* the last handleEvent call: instance, event, payloads accepted
  qrLog,       \* per instance: QR codes accepted by QRChannel, in order
  crypt,       \* the manager's backup configuration (joBotURL, encryptKey)
               \* and one encrypt / decrypt computation of it
  main,        \* the main goroutine: its position, and the calls it made
               \* on a termination signal
  monitor      \* the plugin's inbound monitor (monitorWaMeowProvider): its
               \* position, the abort signal, the event sources it created,
               \* currentEs, reconnectAttempts, the pending reconnect timers
               \* and the number of payloads handed to opts.onMessage

vars == <<sessions, mu, nsess, UserID, LastUsed, QRChannel, LoginDone, EventChan,
          connected, storeID, deviceDB, backup, eventHandlers, Container, req,
          pumps,
          nevents, alive, gocRet, enqLog, subs, lastEvt, qrLog, crypt, main, monitor>>

mgrVars == <<sessions, mu, nsess, UserID, LastUsed, alive, gocRet>>
chanVars == <<QRChannel, LoginDone, EventChan>>
clientVars == <<connected, storeID, deviceDB, backup, eventHandlers, Container>>
histVars == <<nevents, enqLog, subs, lastEvt, qrLog, crypt, main, monitor>>

\* a request slot's locals: what GetStore().GetID() != nil returned (sawID),
\* whether GetQRChannel was called (qrChan), the frames written so far, the
\* calls the handler made outside the manager with their results (calls),
\* the JSON body of a status answer (body)
IdleReq == [pc |-> "idle", op |-> "none", user |-> 0, sid |-> NoSession,
            resp |-> "none", frames |-> <<>>, timer |-> "off",
            sawID |-> FALSE, qrChan |-> FALSE, calls |-> <<>>, body |-> <<>>, group |-> FALSE]

\* a nil error
NoErr == "nil"

\* a manager without JO_BOT_URL and WHATSAPP_SESSION_KEY, no encrypt /
\* decrypt computation under way (keyB64: the configured key string; key:
\* m.encryptKey; url: m.joBotURL is not empty)
NoCrypt == [stage |-> "none", keyB64 |-> <<>>, key |-> Nil, url |-> FALSE,
            plain |-> <<>>, out |-> <<>>, err |-> NoErr, result |-> <<>>]

\* the negation of `m.joBotURL == "" || m.encryptKey == nil`, the first test
\* of fetchSessionFromJoBot and saveSessionToJoBot
EnabledMutant == crypt.url
Enabled == crypt.url /\ crypt.key # Nil

\* ------------------------------------------------------- upstream events
\* A Go string is a sequence of tokens ("" is <<>>), so that the code's
\* concatenation is \o; a nil-able pointer is Nil or Some(v).
Some(v) == <<v>>
EmptyStr == <<>>
Str(t) == <<t>>

ContactA == [DisplayName |-> Some(Str("A"))]
ContactB == [DisplayName |-> Some(Str("B"))]

ConversationVals == {Nil, Some(EmptyStr), Some(Str("hi"))}
ExtendedTextVals == {Nil, Some(Str("ext"))}
ImageVals == {Nil, Some([Caption |-> Some(Str("cap"))])}
LocationVals ==
  {Nil} \cup {Some([Name |-> n, Address |-> a]) :
                n \in {Nil, Some(EmptyStr), Some(Str("N"))},
                a \in {Nil, Some(EmptyStr), Some(Str("Addr"))}}
LiveLocationVals == {Nil, Some([Caption |-> Some(Str("live"))])}
ContactVals == {Nil, Some([DisplayName |-> Some(Str("C"))])}
ContactsArrayVals ==
  {Nil, Some(<<>>), Some(<<ContactA>>), Some(<<ContactA, ContactB>>)}
AudioVals == {Nil, Some([PTT |-> TRUE]), Some([PTT |-> FALSE])}

EmptyMessage ==
  [Conversation |-> Nil, ExtendedText |-> Nil, Image |-> Nil, Location |-> Nil,
   LiveLocation |-> Nil, Contact |-> Nil, ContactsArray |-> Nil, Audio |-> Nil]

\* waE2E.Message values delivered by the upstream: every message with one
\* content field set, and the combinations of two fields in which one field's
\* handling meets another's (else-if, overwritten text or media type, the
\* contacts array next to any other content)
OneField ==
  {[EmptyMessage EXCEPT !.Conversation = v] : v \in ConversationVals}
  \cup {[EmptyMessage EXCEPT !.ExtendedText = v] : v \in ExtendedTextVals}
  \cup {[EmptyMessage EXCEPT !.Image = v] : v \in ImageVals}
  \cup {[EmptyMessage EXCEPT !.Location = v] : v \in LocationVals}
  \cup {[EmptyMessage EXCEPT !.LiveLocation = v] : v \in LiveLocationVals}
  \cup {[EmptyMessage EXCEPT !.Contact = v] : v \in ContactVals}
  \cup {[EmptyMessage EXCEPT !.ContactsArray = v] : v \in ContactsArrayVals}
  \cup {[EmptyMessage EXCEPT !.Audio = v] : v \in AudioVals}

ContactsArrayAnd ==
  {[m EXCEPT !.ContactsArray = Some(<<ContactA, ContactB>>)] :
     m \in {x \in OneField : x.ContactsArray = Nil /\ x.Location = Nil}
            \cup {[EmptyMessage EXCEPT !.Location =
                     Some([Name |-> Some(Str("N")), Address |-> Nil])]}}

ConversationAnd ==
  {[m EXCEPT !.Conversation = Some(Str("hi"))] :
     m \in {x \in OneField : x.ExtendedText # Nil \/ x.Image # Nil}
            \cup {[EmptyMessage EXCEPT !.Location = Some([Name |-> n, Address |-> a])] :
                    n \in {Nil, Some(Str("N"))}, a \in {Nil, Some(Str("Addr"))}}}

ImageAnd ==
  {[m EXCEPT !.Image = Some([Caption |-> Nil])] :
     m \in {x \in OneField : x.LiveLocation # Nil \/ x.Contact # Nil}}

Messages == OneField \cup ContactsArrayAnd \cup ConversationAnd \cup ImageAnd

TextMessage == [EmptyMessage EXCEPT !.Conversation = Some(Str("hi"))]

NoEvent == [kind |-> "none", ID |-> 0, Message |-> EmptyMessage]
UpstreamMessage(id, m) == [kind |-> "Message", ID |-> id, Message |-> m]
OtherEvent(k, id) == [kind |-> k, ID |-> id, Message |-> EmptyMessage]

\* the events the upstream client may hand to the session's handler
RichEvents(id) ==
  {UpstreamMessage(id, m) : m \in Messages}
  \cup {OtherEvent("MediaRetry", id), OtherEvent("Receipt", id)}
PlainEvents(id) == {UpstreamMessage(id, TextMessage)}

InitManager ==
  /\ sessions = [u \in UserIDs |-> NoSession]
  /\ mu = [w |-> NoReq, r |-> {}]
  /\ nsess = 0
  /\ UserID = <<>>
  /\ LastUsed = <<>>
  /\ QRChannel = <<>>
  /\ LoginDone = <<>>
  /\ EventChan = <<>>
  /\ connected = <<>>
  /\ storeID = <<>>
  /\ eventHandlers = <<>>
  /\ Container = <<>>
  /\ deviceDB \in [UserIDs -> BOOLEAN]
  /\ req = [r \in Req |-> IdleReq]
  /\ pumps = <<>>
  /\ nevents = 0
  /\ alive = {}
  /\ gocRet = [u \in UserIDs |-> {}]
  /\ enqLog = <<>>
  /\ subs = <<>>
  /\ lastEvt = [sid |-> NoSession, evt |-> NoEvent, accepted |-> 0]
  /\ qrLog = <<>>
  /\ main = [pc |-> "serving", calls |-> <<>>]
  /\ monitor = [pc |-> "getStatus", aborted |-> FALSE, es |-> <<>>,
                currentEs |-> 0, reconnectAttempts |-> 0, timers |-> <<>>,
                received |-> 0, selfPhone |-> "unset"]

\* no remote backup of any user
NoBackup == [u \in UserIDs |-> "none"]

\* what saveSessionToJoBot posts: the contents of the DB file
DBCopy(hasID) == IF hasID THEN "paired" ELSE "unpaired"

Init == InitManager /\ crypt = NoCrypt /\ backup = NoBackup

\* the specifications of one session's pipelines use one user
PairUsers == {1}

\* only the users of PairUsers have a device DB on disk
InitOne == Init /\ \A u \in UserIDs \ PairUsers : ~deviceDB[u]

\* the device DB of every user of PairUsers holds an identity from an
\* earlier run
InitPaired == InitOne /\ \A u \in PairUsers : deviceDB[u]

\* ------------------------------------------------------------ sync.RWMutex
CanLockMutant == TRUE
CanLock == mu.w = NoReq /\ mu.r = {}
CanRLockMutant == TRUE
CanRLock == mu.w = NoReq

\* non-blocking channel send: select { case ch <- x: default: }
TrySendMutant(ch, x, cap) == Append(ch, x)
TrySend(ch, x, cap) == IF Len(ch) < cap THEN Append(ch, x) ELSE ch

Begin(op, pc, u) ==
  [IdleReq EXCEPT !.pc = pc, !.op = op, !.user = u]

\* the handler has written its response and is about to return; it is done
\* with its session pointer
Finish(r, status) ==
  [req[r] EXCEPT !.pc = "return", !.resp = status, !.sid = NoSession]

\* the handler returns: net/http closes the response, the goroutine ends
Return(r) ==
  /\ req[r].pc = "return"
  /\ req' = [req EXCEPT ![r] = IdleReq]
  /\ UNCHANGED <<mgrVars, chanVars, clientVars, pumps, histVars>>

\* the handler of slot q has called `name`, which returned `result`
Called(q, name, result) == [q EXCEPT !.calls = Append(@, <<name, result>>)]

\* if userID == 0 { errorResponse(w, http.StatusBadRequest, "user_id required") }
BadRequest(op, u) == [Begin(op, "return", u) EXCEPT !.resp = "400"]

\* ------------------------------------------------- POST /sessions, part 1
\* createSessionHandler up to the call of GetOrCreateSession
createSessionHandler(r, u) ==
  /\ req[r].pc = "idle"
  /\ req' = [req EXCEPT ![r] = Begin("createSession", "goc_wait", u)]
  /\ UNCHANGED <<mgrVars, chanVars, clientVars, pumps, histVars>>

\* GetOrCreateSession: m.mu.Lock(), the map lookup and, on a hit, the return
GetOrCreateSession_Lookup(r) ==
  LET u == req[r].user IN
  /\ req[r].pc = "goc_wait"
  /\ CanLock
  /\ IF sessions[u] # NoSession
       THEN /\ req' = [req EXCEPT ![r].pc = "cs_branch", ![r].sid = sessions[u]]
            /\ gocRet' = [gocRet EXCEPT ![u] = @ \cup {sessions[u]}]
            /\ UNCHANGED mu
       ELSE /\ req' = [req EXCEPT ![r].pc = "goc_create"]
            /\ mu' = [mu EXCEPT !.w = r]
            /\ UNCHANGED gocRet
  /\ UNCHANGED <<sessions, nsess, UserID, LastUsed, alive, chanVars, clientVars,
                 pumps, histVars>>

\* what fetchSessionFromJoBot can meet: backup not configured, the GET
\* failing, 404, another status, a body that does not decode, empty data, a
\* decrypt failure, os.WriteFile failing, or the DB file restored
RestoreOutcomes == {"disabled", "transport error", "404", "non-200",
                    "undecodable", "empty", "decrypt failed", "write failed",
                    "restored"}

\* GetOrCreateSession calls fetchSessionFromJoBot as a statement: no outcome
\* of it ends the creation (only the write failure is returned as an error)
RestoreAbortsMutant(restore) == restore = "write failed"
RestoreAborts(restore) == FALSE

\* sqlstore.New and container.GetFirstDevice
StoreResults == {NoErr, "sqlstore failed", "device failed"}

\* creation goes on only if both calls returned no error
StoreOpenedMutant(store) == TRUE
StoreOpened(store) == store = NoErr

\* the store calls made, with their results
StoreCalls(store) ==
  IF store = "sqlstore failed" THEN <<<<"sqlstore.New", "failed">>>>
  ELSE <<<<"sqlstore.New", NoErr>>,
         <<"GetFirstDevice", IF store = NoErr THEN NoErr ELSE "failed">>>>

\* rawClient.AddEventHandler(...) is called before m.sessions[userID] =
\* session, and both before the deferred unlock
HandlerBeforeInsertMutant == FALSE
HandlerBeforeInsert == TRUE

\* GetOrCreateSession after a miss: restore, open the store, construct the
\* session, register the handler, insert, unlock
\* (restore: what the restore met; store: the result of opening the store)
GetOrCreateSession_Create(r, restore, store) ==
  LET u == req[r].user
      s == nsess + 1
      f == Called(req[r], "fetchSessionFromJoBot", restore)
      c == IF RestoreAborts(restore) THEN f.calls ELSE f.calls \o StoreCalls(store) IN
  /\ req[r].pc = "goc_create"
  /\ mu' = [mu EXCEPT !.w = IF @ = r THEN NoReq ELSE @]
  /\ RestoreAborts(restore) => store = NoErr
  /\ (restore = "disabled") <=> ~Enabled
  /\ restore = "restored" => backup[u] # "none"
  /\ deviceDB' = IF restore = "restored"
                   THEN [deviceDB EXCEPT ![u] = (backup[u] = "paired")]
                   ELSE deviceDB
  /\ UNCHANGED backup
  /\ IF ~RestoreAborts(restore) /\ StoreOpened(store)
       THEN /\ nsess < MaxSessions
            /\ nsess' = s
            /\ UserID' = Append(UserID, u)
            /\ LastUsed' = Append(LastUsed, {})
            /\ QRChannel' = Append(QRChannel, <<>>)
            /\ LoginDone' = Append(LoginDone, <<>>)
            /\ EventChan' = Append(EventChan, <<>>)
            /\ connected' = Append(connected, FALSE)
            /\ storeID' = Append(storeID, deviceDB'[u])
            /\ eventHandlers' = Append(eventHandlers, HandlerBeforeInsert)
            /\ Container' = Append(Container, TRUE)
            /\ enqLog' = Append(enqLog, <<>>)
            /\ subs' = Append(subs, 0)
            /\ qrLog' = Append(qrLog, <<>>)
            /\ sessions' = [sessions EXCEPT ![u] = s]
            /\ alive' = alive \cup {s}
            /\ gocRet' = [gocRet EXCEPT ![u] = @ \cup {s}]
            /\ req' = [req EXCEPT ![r].pc = "cs_branch", ![r].sid = s, ![r].calls = c]
            /\ UNCHANGED <<pumps, nevents, lastEvt, crypt, main, monitor>>
       ELSE /\ req' = [req EXCEPT ![r] = [Finish(r, "500") EXCEPT !.calls = c]]
            /\ UNCHANGED <<sessions, nsess, UserID, LastUsed, alive, gocRet, chanVars,
                           connected, storeID, eventHandlers, Container, pumps,
                           histVars>>

\* ------------------------------------------------- POST /sessions, part 2
\* the goroutine ranges over the qrChan that GetQRChannel returned: nil when
\* GetQRChannel returned an error, which the handler discards
NewPump(s, qrErr) ==
  [sid |-> s, pc |-> "running", issued |-> 0, atSuccess |-> -1,
   qrChan |-> IF qrErr = NoErr THEN "open" ELSE "nil"]

\* what session.Client.GetQRChannel can return: a channel, or nil and an error
QRChannelResults == {NoErr, "qr channel failed"}

\* a receive from a nil channel blocks for ever
RangeBlocks(p) == p.qrChan = "nil"

Answer(r, status, id, qr) ==
  [Finish(r, status) EXCEPT !.sawID = id, !.qrChan = qr]

\* what session.Client.Connect() can return: nil or an error
ConnectFailures == {NoErr, "connect failed"}
ConnectResults == ConnectFailures \cup {"already connected"}

\* session.Client.GetStore().GetID() == nil
NoDeviceIDMutant(s) == TRUE
NoDeviceID(s) == ~storeID[s]

\* createSessionHandler after GetOrCreateSession returned a session
\* (qrErr: what GetQRChannel returns if it is called; connErr: what
\* session.Client.Connect() returns if it is called; maxPumps bounds the
\* number of goroutines spawned)
createSessionHandler_Branch(r, qrErr, connErr, maxPumps) ==
  LET s == req[r].sid
      c == Called(req[r], "Connect", connErr) IN
  /\ req[r].pc = "cs_branch"
  /\ ~NoDeviceID(s) => qrErr = NoErr
  /\ IF NoDeviceID(s)
       THEN \* GetQRChannel, Connect, go func() {...}
            IF connErr # NoErr
              THEN /\ req' = [req EXCEPT ![r] =
                                [Answer(r, "500", storeID[s], TRUE) EXCEPT !.calls = c.calls]]
                   /\ UNCHANGED <<connected, pumps>>
              ELSE /\ Len(pumps) < maxPumps
                   /\ connected' = [connected EXCEPT ![s] = TRUE]
                   /\ pumps' = Append(pumps, NewPump(s, qrErr))
                   /\ req' = [req EXCEPT ![r] =
                                [Answer(r, "needs_qr", storeID[s], TRUE) EXCEPT !.calls = c.calls]]
       ELSE IF ~connected[s]
              THEN IF connErr # NoErr
                     THEN /\ req' = [req EXCEPT ![r] =
                                       [Answer(r, "500", storeID[s], FALSE) EXCEPT !.calls = c.calls]]
                          /\ UNCHANGED <<connected, pumps>>
                     ELSE /\ connected' = [connected EXCEPT ![s] = TRUE]
                          /\ req' = [req EXCEPT ![r] =
                                       [Answer(r, "connected", storeID[s], FALSE) EXCEPT !.calls = c.calls]]
                          /\ UNCHANGED pumps
              ELSE /\ connErr = NoErr
                   /\ req' = [req EXCEPT ![r] = Answer(r, "connected", storeID[s], FALSE)]
                   /\ UNCHANGED <<connected, pumps>>
  /\ UNCHANGED <<mgrVars, chanVars, storeID, deviceDB, backup, eventHandlers,
                 Container, histVars>>

\* ------------------------------------------------------------ pairing pump
\* for evt := range qrChan, evt.Event == "code" (maxCodes bounds the number
\* of codes the upstream issues on one pairing stream)
Pump_Code(p, maxCodes) ==
  LET s == pumps[p].sid
      code == <<p, pumps[p].issued + 1>>
      q == TrySend(QRChannel[s], code, QRChannelCap) IN
  /\ pumps[p].pc = "running"
  /\ ~RangeBlocks(pumps[p])
  /\ connected[s]
  /\ pumps[p].issued < maxCodes
  /\ QRChannel' = [QRChannel EXCEPT ![s] = q]
  /\ qrLog' = [qrLog EXCEPT ![s] = IF q # QRChannel[s] THEN Append(@, code) ELSE @]
  /\ pumps' = [pumps EXCEPT ![p].issued = @ + 1]
  /\ UNCHANGED <<mgrVars, LoginDone, EventChan, clientVars, req, nevents,
                 enqLog, subs, lastEvt, crypt, main, monitor>>

PumpAfterSuccessMutant == "running"
PumpAfterSuccess == "exited"

\* evt.Event == "success": the upstream has stored the device identity
Pump_Success(p) ==
  LET s == pumps[p].sid IN
  /\ pumps[p].pc = "running"
  /\ ~RangeBlocks(pumps[p])
  /\ connected[s]
  /\ pumps[p].atSuccess = -1
  /\ LoginDone' = [LoginDone EXCEPT ![s] = TrySend(@, TRUE, LoginDoneCap)]
  /\ pumps' = [pumps EXCEPT ![p].pc = PumpAfterSuccess,
                            ![p].atSuccess = pumps[p].issued]
  /\ storeID' = [storeID EXCEPT ![s] = TRUE]
  /\ deviceDB' = [deviceDB EXCEPT ![UserID[s]] = TRUE]
  /\ UNCHANGED <<mgrVars, QRChannel, EventChan, connected, backup, eventHandlers,
                 Container, req, histVars>>

\* the upstream closes qrChan (after a timeout or error event, which the
\* loop ignores): the range loop ends
Pump_Closed(p) ==
  /\ pumps[p].pc = "running"
  /\ ~RangeBlocks(pumps[p])
  /\ pumps' = [pumps EXCEPT ![p].pc = "exited"]
  /\ UNCHANGED <<mgrVars, chanVars, clientVars, req, histVars>>

\* ------------------------------------------------- DELETE /sessions/delete
deleteSessionHandler(r, u) ==
  /\ req[r].pc = "idle"
  /\ req' = [req EXCEPT ![r] = IF u = 0 THEN BadRequest("deleteSession", u)
                                ELSE Begin("deleteSession", "rm_wait", u)]
  /\ UNCHANGED <<mgrVars, chanVars, clientVars, pumps, histVars>>

\* RemoveSession: m.mu.Lock()
RemoveSession_Lock(r) ==
  /\ req[r].pc = "rm_wait"
  /\ CanLock
  /\ mu' = [mu EXCEPT !.w = r]
  /\ req' = [req EXCEPT ![r].pc = "rm_locked"]
  /\ UNCHANGED <<sessions, nsess, UserID, LastUsed, alive, gocRet, chanVars,
                 clientVars, pumps, histVars>>

\* what saveSessionToJoBot can meet: backup not configured (it returns nil
\* at once), the DB posted (nil), or an error of reading the DB, encrypting
\* or posting it
SaveResults == {"disabled", NoErr, "save failed"}

\* RemoveSession discards the result of saveSessionToJoBot: the delete that
\* follows does not depend on it
DeleteAfterSaveMutant(saveErr) == saveErr # "save failed"
DeleteAfterSave(saveErr) == TRUE

\* RemoveSession under the lock: Disconnect, saveSessionToJoBot, delete,
\* unlock; then the handler answers {status: "disconnected"}
\* (saveErr: what saveSessionToJoBot returns if it is called)
RemoveSession_Body(r, saveErr) ==
  LET u == req[r].user
      s == sessions[u]
      d == Called(Called(req[r], "Disconnect", NoErr), "saveSessionToJoBot", saveErr)
      c == IF DeleteAfterSave(saveErr) THEN Called(d, "delete", NoErr) ELSE d IN
  /\ req[r].pc = "rm_locked"
  /\ mu' = [mu EXCEPT !.w = IF @ = r THEN NoReq ELSE @]
  /\ IF s # NoSession
       THEN /\ (saveErr = "disabled") <=> ~Enabled
            /\ connected' = [connected EXCEPT ![s] = FALSE]
            /\ IF DeleteAfterSave(saveErr)
                 THEN /\ sessions' = [sessions EXCEPT ![u] = NoSession]
                      /\ alive' = alive \ {s}
                      /\ gocRet' = [gocRet EXCEPT ![u] = {}]
                 ELSE UNCHANGED <<sessions, alive, gocRet>>
            /\ req' = [req EXCEPT ![r] =
                         [Finish(r, "disconnected") EXCEPT !.calls = c.calls]]
       ELSE /\ req' = [req EXCEPT ![r] = Finish(r, "disconnected")]
            /\ UNCHANGED <<connected, sessions, alive, gocRet>>
  /\ backup' = IF s # NoSession /\ saveErr = NoErr
                 THEN [backup EXCEPT ![u] = DBCopy(deviceDB[u])] ELSE backup
  /\ UNCHANGED <<nsess, UserID, LastUsed, chanVars, storeID, deviceDB, eventHandlers,
                 Container, pumps, histVars>>

\* -------------------------------------------------- POST /sessions/save
\* saveSessionHandler: 400 without a user id; SaveSession (RLock, and
\* saveSessionToJoBot if the session exists); {status: "saved"}
\* (saveErr: what saveSessionToJoBot returns if it is called)
saveSessionHandler(r, u, saveErr) ==
  LET b == Begin("saveSession", "return", u) IN
  /\ req[r].pc = "idle"
  /\ u # 0 => CanRLock
  /\ (u # 0 /\ sessions[u] # NoSession) => ((saveErr = "disabled") <=> ~Enabled)
  /\ req' = [req EXCEPT ![r] =
               IF u = 0 THEN BadRequest("saveSession", u)
               ELSE IF sessions[u] = NoSession THEN [b EXCEPT !.resp = "saved"]
               ELSE [Called(b, "saveSessionToJoBot", saveErr) EXCEPT !.resp = "saved"]]
  /\ backup' = IF u # 0 /\ sessions[u] # NoSession /\ saveErr = NoErr
                 THEN [backup EXCEPT ![u] = DBCopy(deviceDB[u])] ELSE backup
  /\ UNCHANGED <<mgrVars, chanVars, connected, storeID, deviceDB, eventHandlers,
                 Container, pumps, histVars>>

\* ------------------------------------------------- GET /sessions/status
\* session.Client.IsLoggedIn(): connected and authenticated with the stored
\* identity
IsLoggedInMutant(s) == TRUE
IsLoggedIn(s) == connected[s] /\ storeID[s]

\* the answer for a user without a session
NoSessionStatusMutant == <<<<"connected", TRUE>>, <<"logged_in", FALSE>>>>
NoSessionStatus == <<<<"connected", FALSE>>, <<"logged_in", FALSE>>>>

\* the answer for session instance s
StatusOf(s) ==
  <<<<"connected", connected[s]>>, <<"logged_in", IsLoggedIn(s)>>>>
    \o (IF storeID[s] THEN <<<<"phone", TRUE>>>> ELSE <<>>)

\* getStatusHandler: 400 without a user id; GetSession (RLock); the status
\* of the session, or of no session
getStatusHandler(r, u) ==
  LET b == [Begin("getStatus", "return", u) EXCEPT !.resp = "200"] IN
  /\ req[r].pc = "idle"
  /\ u # 0 => CanRLock
  /\ req' = [req EXCEPT ![r] =
               IF u = 0 THEN BadRequest("getStatus", u)
               ELSE IF sessions[u] = NoSession THEN [b EXCEPT !.body = NoSessionStatus]
               ELSE [b EXCEPT !.body = StatusOf(sessions[u])]]
  /\ UNCHANGED <<mgrVars, chanVars, clientVars, pumps, histVars>>

\* ---------------------------- chat, messaging, media and group handlers
\* the handlers that read user_id (and group_jid) from the query string
ChatHandlers == {"getChats"}
GroupHandlers == {"getGroupInfo", "listGroupParticipants"}
\* the handlers that read user_id from the JSON body
BodyHandlers == {"sendMessage", "sendReaction", "setTyping", "sendImage",
                 "sendLocation", "downloadMedia"}
UpstreamHandlers == ChatHandlers \cup GroupHandlers \cup BodyHandlers

\* the handlers with an `if userID == 0` check
ChecksUserID(h) == h \in ChatHandlers \cup GroupHandlers

\* the handlers that parse a JID (sendImage: and the base64 image) after the
\* logged-in check
ParsesArgs(h) == h \notin {"getChats", "downloadMedia"}

\* the calls a handler makes on the client, in the order of the code
UpstreamCalls(h) ==
  CASE h = "getChats" -> <<"GetJoinedGroups", "GetAllContacts">>
    [] h \in {"sendMessage", "sendReaction", "sendLocation"} -> <<"SendMessage">>
    [] h = "setTyping" -> <<"SendChatPresence">>
    [] h = "sendImage" -> <<"Upload", "SendMessage">>
    [] h \in GroupHandlers -> <<"GetGroupInfo">>
    [] h = "downloadMedia" -> <<"Download">>

\* getChatsHandler skips the result of a failed call and goes on
IgnoresErrorsMutant(h) == h \in {"getChats", "sendImage"}
IgnoresErrors(h) == h = "getChats"

\* the handler up to the session lookup: user_id and group_jid checks of the
\* query handlers, GetSession (RLock), 404 if absent
\* (hasGroup: the query carries a group_jid)
Handler_Lookup(r, h, u, hasGroup) ==
  LET s == sessions[u]
      rejected == (ChecksUserID(h) /\ u = 0) \/ (h \in GroupHandlers /\ ~hasGroup) IN
  /\ req[r].pc = "idle"
  /\ h \notin GroupHandlers => ~hasGroup
  /\ ~rejected => CanRLock
  /\ req' = [req EXCEPT ![r] =
               IF rejected THEN [BadRequest(h, u) EXCEPT !.group = hasGroup]
               ELSE IF s = NoSession
                 THEN [Begin(h, "return", u) EXCEPT !.resp = "404", !.group = hasGroup]
                 ELSE [Begin(h, "h_login", u) EXCEPT !.sid = s, !.group = hasGroup]]
  /\ UNCHANGED <<mgrVars, chanVars, clientVars, pumps, histVars>>

\* if !session.Client.IsLoggedIn() -> 400 "not logged in"
Handler_LoggedIn(r) ==
  /\ req[r].pc = "h_login"
  /\ req' = [req EXCEPT ![r] =
               IF IsLoggedIn(req[r].sid) THEN [@ EXCEPT !.pc = "h_call"]
               ELSE Finish(r, "400")]
  /\ UNCHANGED <<mgrVars, chanVars, clientVars, pumps, histVars>>

\* the rest of the handler: parse the arguments (400), make the upstream
\* calls (500 on the first error, except in getChats), answer
\* (argsOk: the JID and image parse; fail: which call fails, 0 for none;
\* empty: Download returns no error and 0 bytes)
Handler_Call(r, argsOk, fail, empty) ==
  LET h == req[r].op
      c == UpstreamCalls(h)
      n == IF fail = 0 \/ IgnoresErrors(h) THEN Len(c) ELSE fail
      made == [i \in 1..n |-> <<c[i], IF i = fail THEN "failed"
                                      ELSE IF empty THEN "empty" ELSE NoErr>>] IN
  /\ req[r].pc = "h_call"
  /\ ~ParsesArgs(h) => argsOk
  /\ fail \in 0..Len(c)
  /\ ~argsOk => fail = 0
  /\ empty => (h = "downloadMedia" /\ fail = 0)
  /\ req' = [req EXCEPT ![r] =
               IF ~argsOk THEN Finish(r, "400")
               ELSE [Finish(r, IF fail = 0 \/ IgnoresErrors(h) THEN "200" ELSE "500")
                       EXCEPT !.calls = @ \o made]]
  /\ UNCHANGED <<mgrVars, chanVars, clientVars, pumps, histVars>>

\* ------------------------------------------------------------ handleEvent
MessagePayload(id) ==
  [ID |-> id, Text |-> EmptyStr, MediaType |-> "", Caption |-> EmptyStr,
   ContactName |-> EmptyStr]

MessageEvent(p) == [Type |-> "message", Payload |-> p]

\* v.Message.Conversation / ExtendedTextMessage.Text
WithText(p, m) ==
  IF m.Conversation # Nil THEN [p EXCEPT !.Text = m.Conversation[1]]
  ELSE IF m.ExtendedText # Nil THEN [p EXCEPT !.Text = m.ExtendedText[1]]
  ELSE p

WithImage(p, m) ==
  IF m.Image = Nil THEN p
  ELSE [p EXCEPT !.MediaType = "image",
                 !.Caption = IF m.Image[1].Caption # Nil
                               THEN m.Image[1].Caption[1] ELSE @]

WithLocation(p, m) ==
  IF m.Location = Nil THEN p
  ELSE LET loc == m.Location[1]
           t1 == IF loc.Name # Nil THEN loc.Name[1] ELSE p.Text
           t2 == IF loc.Address # Nil
                   THEN IF t1 # EmptyStr
                          THEN t1 \o Str(" - ") \o loc.Address[1]
                          ELSE loc.Address[1]
                   ELSE t1
       IN [p EXCEPT !.MediaType = "location", !.Text = t2]

WithLiveLocation(p, m) ==
  IF m.LiveLocation = Nil THEN p
  ELSE [p EXCEPT !.MediaType = "live_location",
                 !.Caption = IF m.LiveLocation[1].Caption # Nil
                               THEN m.LiveLocation[1].Caption[1] ELSE @]

WithContact(p, m) ==
  IF m.Contact = Nil THEN p
  ELSE [p EXCEPT !.MediaType = "contact",
                 !.ContactName = IF m.Contact[1].DisplayName # Nil
                                   THEN m.Contact[1].DisplayName[1] ELSE @]

\* the payload of the enclosing message when control reaches `if hasContent`
EnclosingPayload(evt) ==
  WithContact(WithLiveLocation(WithLocation(WithImage(
    WithText(MessagePayload(evt.ID), evt.Message), evt.Message), evt.Message),
    evt.Message), evt.Message)

hasContent(m) ==
  \/ m.Conversation # Nil
  \/ m.ExtendedText # Nil
  \/ m.Image # Nil
  \/ m.Location # Nil
  \/ m.LiveLocation # Nil
  \/ m.Contact # Nil

ContactPayloadMutant(id, c) ==
  [MessagePayload(0) EXCEPT !.MediaType = "contact",
     !.ContactName = IF c.DisplayName # Nil THEN c.DisplayName[1] ELSE @]
ContactPayload(id, c) ==
  [MessagePayload(id) EXCEPT !.MediaType = "contact",
     !.ContactName = IF c.DisplayName # Nil THEN c.DisplayName[1] ELSE @]

\* for _, contact := range contacts.Contacts { select { case s.EventChan <- ... } }
RECURSIVE SendContacts(_, _, _)
SendContacts(ch, id, cs) ==
  IF cs = <<>> THEN ch
  ELSE SendContacts(TrySend(ch, MessageEvent(ContactPayload(id, Head(cs))),
                            EventChanCap), id, Tail(cs))

\* switch v := evt.(type) { case *events.Message: ... }
IsMessage(evt) == evt.kind = "Message"

\* the switch has no other case and no default: the channel is left alone
NoCaseMutant(ch, evt) ==
  IF Len(ch) < EventChanCap
    THEN Append(ch, MessageEvent(MessagePayload(evt.ID))) ELSE ch
NoCase(ch, evt) == ch

\* UserSession.handleEvent: the contents of s.EventChan after the call
handleEvent(ch, evt) ==
  IF ~IsMessage(evt) THEN NoCase(ch, evt)
  ELSE LET m == evt.Message
           c == IF m.ContactsArray # Nil
                  THEN SendContacts(ch, evt.ID, m.ContactsArray[1])
                  ELSE ch
       IN IF hasContent(m)
            THEN TrySend(c, MessageEvent(EnclosingPayload(evt)), EventChanCap)
            ELSE c

\* the handler registered on instance s's client is a closure over that
\* same session: func(evt) { session.handleEvent(evt) }
HandlerSessionMutant(s) == IF s > 1 THEN s - 1 ELSE s
HandlerSession(s) == s

\* the upstream client delivers evt to the handler registered for instance s
\* (maxEv bounds the number of deliveries)
DeliverEvent(s, evt, maxEv) ==
  LET t == HandlerSession(s)
      ch == handleEvent(EventChan[t], evt)
      n == Len(EventChan[t]) IN
  /\ nevents < maxEv
  /\ connected[s] /\ storeID[s]
  /\ eventHandlers[s]
  /\ nevents' = nevents + 1
  /\ EventChan' = [EventChan EXCEPT ![t] = ch]
  /\ enqLog' = [enqLog EXCEPT ![s] = @ \o SubSeq(ch, n + 1, Len(ch))]
  /\ lastEvt' = [sid |-> s, evt |-> evt, accepted |-> Len(ch) - n]
  /\ UNCHANGED <<mgrVars, QRChannel, LoginDone, clientVars, req, pumps, subs, qrLog,
                 crypt, main, monitor>>

\* ------------------------------------------------------------- GET /events
\* eventsHandler up to the stream loop: 400 without a user id, GetSession
\* (RLock), 404 if absent
eventsHandler(r, u) ==
  LET s == sessions[u] IN
  /\ req[r].pc = "idle"
  /\ u # 0 => CanRLock
  /\ IF u = 0
       THEN /\ req' = [req EXCEPT ![r] = BadRequest("events", u)]
            /\ UNCHANGED subs
       ELSE IF s = NoSession
       THEN /\ req' = [req EXCEPT ![r] = [Begin("events", "return", u) EXCEPT
                                           !.resp = "404"]]
            /\ UNCHANGED subs
       ELSE /\ req' = [req EXCEPT ![r] = [Begin("events", "events", u) EXCEPT !.sid = s]]
            /\ subs' = [subs EXCEPT ![s] = IF @ < 2 THEN @ + 1 ELSE @]
  /\ UNCHANGED <<mgrVars, chanVars, clientVars, pumps, nevents, enqLog, lastEvt,
                 qrLog, crypt, main, monitor>>

\* json.Marshal(evt): text is always written, the media and contact fields
\* carry omitempty (an omitted field is <<>>)
OmitEmpty(v, empty) == IF v = empty THEN <<>> ELSE <<v>>

Marshal(e) ==
  [type |-> e.Type,
   payload |-> [id |-> e.Payload.ID, text |-> e.Payload.Text,
                media_type |-> OmitEmpty(e.Payload.MediaType, ""),
                caption |-> OmitEmpty(e.Payload.Caption, EmptyStr),
                contact_name |-> OmitEmpty(e.Payload.ContactName, EmptyStr)]]

\* case evt := <-session.EventChan: which element a receive takes
RecvMutant(ch) == ch[Len(ch)]
Recv(ch) == Head(ch)

\* one iteration of the loop: receive, marshal, write the frame, flush
eventsHandler_Frame(r, maxFr) ==
  LET s == req[r].sid IN
  /\ req[r].pc = "events"
  /\ EventChan[s] # <<>>
  /\ Len(req[r].frames) < maxFr
  /\ req' = [req EXCEPT ![r].frames =
               Append(@, [event |-> "message", data |-> Marshal(Recv(EventChan[s]))])]
  /\ EventChan' = [EventChan EXCEPT ![s] = Tail(@)]
  /\ UNCHANGED <<mgrVars, QRChannel, LoginDone, clientVars, pumps, histVars>>

\* case <-r.Context().Done(): return
eventsHandler_Done(r) ==
  /\ req[r].pc = "events"
  /\ req' = [req EXCEPT ![r] = Finish(r, "closed")]
  /\ UNCHANGED <<mgrVars, chanVars, clientVars, pumps, histVars>>

\* ------------------------------------------------------- GET /sessions/qr
\* getQRHandler up to the stream loop: 400 without a user id, GetSession
\* (RLock), 404 if absent,
\* timeout := time.After(2 * time.Minute)
getQRHandler(r, u) ==
  LET s == sessions[u] IN
  /\ req[r].pc = "idle"
  /\ u # 0 => CanRLock
  /\ req' = [req EXCEPT ![r] =
               IF u = 0 THEN BadRequest("getQR", u)
               ELSE IF s = NoSession
                 THEN [Begin("getQR", "return", u) EXCEPT !.resp = "404"]
                 ELSE [Begin("getQR", "qr", u) EXCEPT !.sid = s, !.timer = "running"]]
  /\ UNCHANGED <<mgrVars, chanVars, clientVars, pumps, histVars>>

\* case code := <-session.QRChannel (maxFr bounds the frames of one stream)
getQRHandler_Code(r, maxFr) ==
  LET s == req[r].sid IN
  /\ req[r].pc = "qr"
  /\ QRChannel[s] # <<>>
  /\ Len(req[r].frames) < maxFr
  /\ req' = [req EXCEPT ![r].frames =
               Append(@, [event |-> "qr", data |-> Recv(QRChannel[s])])]
  /\ QRChannel' = [QRChannel EXCEPT ![s] = Tail(@)]
  /\ UNCHANGED <<mgrVars, LoginDone, EventChan, clientVars, pumps, histVars>>

\* where the handler is after it wrote a success or timeout frame
AfterFinalFrameMutant == "qr"
AfterFinalFrame == "return"

\* case <-session.LoginDone
getQRHandler_Success(r) ==
  LET s == req[r].sid IN
  /\ req[r].pc = "qr"
  /\ LoginDone[s] # <<>>
  /\ LoginDone' = [LoginDone EXCEPT ![s] = Tail(@)]
  /\ req' = [req EXCEPT ![r].frames = Append(@, [event |-> "success", data |-> <<>>]),
                        ![r].pc = AfterFinalFrame, ![r].resp = "success"]
  /\ UNCHANGED <<mgrVars, QRChannel, EventChan, clientVars, pumps, histVars>>

\* the runtime timer behind time.After expires
Timer_Fire(r) ==
  /\ req[r].pc = "qr"
  /\ req[r].timer = "running"
  /\ req' = [req EXCEPT ![r].timer = "fired"]
  /\ UNCHANGED <<mgrVars, chanVars, clientVars, pumps, histVars>>

\* case <-timeout
getQRHandler_Timeout(r) ==
  /\ req[r].pc = "qr"
  /\ req[r].timer = "fired"
  /\ req' = [req EXCEPT ![r].frames = Append(@, [event |-> "timeout", data |-> <<>>]),
                        ![r].pc = AfterFinalFrame, ![r].resp = "timeout"]
  /\ UNCHANGED <<mgrVars, chanVars, clientVars, pumps, histVars>>

\* case <-r.Context().Done(): return
getQRHandler_Done(r) ==
  /\ req[r].pc = "qr"
  /\ req' = [req EXCEPT ![r] = Finish(r, "closed")]
  /\ UNCHANGED <<mgrVars, chanVars, clientVars, pumps, histVars>>

\* ------------------------------------------------------ backup encryption
\* byte strings are sequences over 0..255; a base64 string is a sequence of
\* sextets 0..63 and the padding character
Pad == 64

\* base64.StdEncoding.EncodeToString: three bytes make four characters, the
\* last group is padded
RECURSIVE EncodeToString(_)
EncodeToString(b) ==
  IF b = <<>> THEN <<>>
  ELSE IF Len(b) = 1
    THEN <<b[1] \div 4, (b[1] % 4) * 16, Pad, Pad>>
  ELSE IF Len(b) = 2
    THEN <<b[1] \div 4, (b[1] % 4) * 16 + b[2] \div 16, (b[2] % 16) * 4, Pad>>
  ELSE <<b[1] \div 4, (b[1] % 4) * 16 + b[2] \div 16,
         (b[2] % 16) * 4 + b[3] \div 64, b[3] % 64>>
       \o EncodeToString(SubSeq(b, 4, Len(b)))

\* base64.StdEncoding.DecodeString: groups of four characters, padding only
\* at the end of the last group
RECURSIVE DecodeString(_)
DecodeString(e) ==
  IF e = <<>> THEN [ok |-> TRUE, data |-> <<>>]
  ELSE IF Len(e) < 4 \/ e[1] = Pad \/ e[2] = Pad THEN [ok |-> FALSE, data |-> <<>>]
  ELSE LET b1 == e[1] * 4 + e[2] \div 16
           b2 == (e[2] % 16) * 16 + e[3] \div 4
           b3 == (e[3] % 4) * 64 + e[4]
           rest == DecodeString(SubSeq(e, 5, Len(e))) IN
       IF e[3] = Pad
         THEN [ok |-> e[4] = Pad /\ Len(e) = 4, data |-> <<b1>>]
       ELSE IF e[4] = Pad
         THEN [ok |-> Len(e) = 4, data |-> <<b1, b2>>]
       ELSE [ok |-> rest.ok, data |-> <<b1, b2, b3>> \o rest.data]

\* len(encryptKey) != 32 in NewSessionManager
KeySize == 32
\* gcm.NonceSize() and gcm.Overhead() of the standard GCM
NonceSize == 12
TagSize == 16

\* NewSessionManager: the key is decoded if one is configured; a string
\* that does not decode, or not to 32 bytes, leaves encryptKey nil
\* (keyB64: WHATSAPP_SESSION_KEY)
NewSessionManager(keyB64) ==
  LET d == DecodeString(keyB64) IN
  IF keyB64 = <<>> \/ ~d.ok \/ Len(d.data) # KeySize THEN Nil ELSE d.data

\* AES-GCM stands behind three operators: a keystream that depends on key,
\* nonce and position, and a tag over key, nonce and ciphertext
KeyStream(key, nonce, i) ==
  (key[((i - 1) % KeySize) + 1] + nonce[((i - 1) % NonceSize) + 1] + i) % 256

RECURSIVE SumBytes(_)
SumBytes(b) == IF b = <<>> THEN 0 ELSE (b[1] + SumBytes(Tail(b))) % 256

GCMTag(key, nonce, ct) ==
  [j \in 1..TagSize |->
     (SumBytes(ct) + Len(ct) + key[j] + nonce[((j - 1) % NonceSize) + 1] + j) % 256]

\* gcm.Seal(dst, nonce, data, nil): dst, then the ciphertext, then the tag
Seal(dst, key, nonce, data) ==
  LET ct == [i \in 1..Len(data) |-> (data[i] + KeyStream(key, nonce, i)) % 256] IN
  dst \o ct \o GCMTag(key, nonce, ct)

\* gcm.Open(nil, nonce, ciphertext, nil): checks the tag, then decrypts
Open(key, nonce, sealed) ==
  LET n == Len(sealed) - TagSize
      ct == SubSeq(sealed, 1, n) IN
  IF n < 0 \/ SubSeq(sealed, n + 1, Len(sealed)) # GCMTag(key, nonce, ct)
    THEN [err |-> "message authentication failed", data |-> <<>>]
    ELSE [err |-> NoErr,
          data |-> [i \in 1..n |-> (ct[i] + 256 - KeyStream(key, nonce, i)) % 256]]

\* the dst argument of gcm.Seal in encrypt: the nonce leads the output
SealDstMutant(nonce) == <<>>
SealDst(nonce) == nonce

\* SessionManager.encrypt (nonce: the bytes read from rand.Reader)
encrypt(key, nonce, data) ==
  IF key = Nil THEN [err |-> "no encryption key", out |-> <<>>]
  ELSE [err |-> NoErr,
        out |-> EncodeToString(Seal(SealDst(nonce), key, nonce, data))]

\* SessionManager.decrypt
decrypt(key, encoded) ==
  LET d == DecodeString(encoded) IN
  IF key = Nil THEN [err |-> "no encryption key", data |-> <<>>]
  ELSE IF ~d.ok THEN [err |-> "illegal base64 data", data |-> <<>>]
  ELSE IF Len(d.data) < NonceSize THEN [err |-> "ciphertext too short", data |-> <<>>]
  ELSE Open(key, SubSeq(d.data, 1, NonceSize),
            SubSeq(d.data, NonceSize + 1, Len(d.data)))

\* the key strings a manager is constructed with: none, the all-zero key
\* of the tests, another 32-byte key, a 16-byte key, and a string that is
\* not base64
KeyInputs == {<<>>, EncodeToString([i \in 1..KeySize |-> 0]),
              EncodeToString([i \in 1..KeySize |-> (i * 37) % 256]),
              EncodeToString([i \in 1..16 |-> 1]), <<13, 14, Pad>>}

\* the nonces rand.Reader may deliver, and the plaintexts
Nonces == {[i \in 1..NonceSize |-> 0], [i \in 1..NonceSize |-> (i * 29) % 256],
           [i \in 1..NonceSize |-> 255]}
PlainBytes == {0, 104, 255}
Plaintexts == UNION {[1..n -> PlainBytes] : n \in 0..MaxPlain}

\* a manager constructed with one of the keys
InitCrypt ==
  /\ InitManager /\ \A u \in UserIDs : ~deviceDB[u]
  /\ backup = NoBackup
  /\ crypt \in {[NoCrypt EXCEPT !.stage = "new", !.keyB64 = k,
                                 !.key = NewSessionManager(k)] : k \in KeyInputs}

\* a manager constructed with one of the keys, with or without JO_BOT_URL;
\* the remote may hold a backup with an identity from an earlier run
InitBackup ==
  /\ InitManager /\ \A u \in UserIDs \ PairUsers : ~deviceDB[u]
  /\ backup \in {[NoBackup EXCEPT ![u] = b] : u \in PairUsers, b \in {"none", "paired"}}
  /\ crypt \in {[NoCrypt EXCEPT !.stage = "new", !.keyB64 = k, !.url = b,
                                 !.key = NewSessionManager(k)] :
                  k \in KeyInputs, b \in BOOLEAN}

\* m.encrypt(x)
Crypt_Encrypt(x, nonce) ==
  LET e == encrypt(crypt.key, nonce, x) IN
  /\ crypt.stage = "new"
  /\ crypt' = [crypt EXCEPT !.stage = "encrypted", !.plain = x,
                            !.out = e.out, !.err = e.err]
  /\ UNCHANGED <<mgrVars, chanVars, clientVars, req, pumps, nevents, enqLog,
                 subs, lastEvt, qrLog, main, monitor>>

\* m.decrypt(encrypted) on what encrypt returned
Crypt_Decrypt ==
  LET d == decrypt(crypt.key, crypt.out) IN
  /\ crypt.stage = "encrypted"
  /\ crypt' = [crypt EXCEPT !.stage = "decrypted", !.result = d.data, !.err = d.err]
  /\ UNCHANGED <<mgrVars, chanVars, clientVars, req, pumps, nevents, enqLog,
                 subs, lastEvt, qrLog, main, monitor>>

NextCrypt ==
  \/ \E x \in Plaintexts, nonce \in Nonces : Crypt_Encrypt(x, nonce)
  \/ Crypt_Decrypt

SpecCrypt == InitCrypt /\ [][NextCrypt]_vars

\* ---------------------------------------------------------- specifications
\* the session manager under concurrent POST /sessions and DELETE
\* (E: the results Connect may have; F: what the restore may meet; S: the
\* results opening the store may have)
CreateBodyOn(R, E, F, S) ==
  \/ \E r \in R : Return(r)
  \/ \E r \in R : GetOrCreateSession_Lookup(r)
  \/ \E r \in R, restore \in F, store \in S :
        GetOrCreateSession_Create(r, restore, store)
  \/ \E r \in R, connErr \in E :
        createSessionHandler_Branch(r, NoErr, connErr, MaxPumps)

\* the same with the backup not configured, and one way for the store to fail
CreateBodyWith(R, E) == CreateBodyOn(R, E, {"disabled"}, {NoErr, "sqlstore failed"})

CreateBody(R) == CreateBodyWith(R, ConnectFailures)

CreateStep(R, U) ==
  \/ \E r \in R, u \in U : createSessionHandler(r, u)
  \/ CreateBody(R)

\* a client that posts /sessions until a session exists
CreateOnce(R, U) ==
  \/ \E r \in R, u \in U : nsess = 0 /\ createSessionHandler(r, u)
  \/ CreateBody(R)

DeleteStepWith(R, U, E) ==
  \/ \E r \in R, u \in U : deleteSessionHandler(r, u)
  \/ \E r \in R : RemoveSession_Lock(r)
  \/ \E r \in R, saveErr \in E : RemoveSession_Body(r, saveErr)

\* the same for a manager whose backup is not configured
DeleteStep(R, U) == DeleteStepWith(R, U, {"disabled"})

\* /events streams attach to and detach from the session
AttachStep(R, U) ==
  \/ \E r \in R, u \in U : eventsHandler(r, u)
  \/ \E r \in R : eventsHandler_Done(r)

Poster == {1}
Reader == {2}

\* every request slot posts /sessions, one client also deletes
Next == CreateStep(Req, Users) \/ DeleteStep(Poster, PairUsers)

Spec == InitOne /\ [][Next]_vars

\* the pairing pipeline: pumps and QR streams
PumpStep(maxCodes) ==
  \/ \E p \in 1..Len(pumps) : Pump_Code(p, maxCodes)
  \/ \E p \in 1..Len(pumps) : Pump_Success(p)
  \/ \E p \in 1..Len(pumps) : Pump_Closed(p)

QRStep(R, U, maxFr) ==
  \/ \E r \in R, u \in U : getQRHandler(r, u)
  \/ \E r \in R : getQRHandler_Code(r, maxFr)
  \/ \E r \in R : getQRHandler_Success(r)
  \/ \E r \in R : Timer_Fire(r)
  \/ \E r \in R : getQRHandler_Timeout(r)
  \/ \E r \in R : getQRHandler_Done(r)

NextPair ==
  \/ CreateStep(Req, PairUsers) \/ PumpStep(MaxCodes)
  \/ AttachStep(Reader, PairUsers)

SpecPair == InitOne /\ [][NextPair]_vars

\* the handlers that use a session
UpstreamStep(R, U) ==
  \/ \E r \in R, h \in UpstreamHandlers, u \in U, hasGroup \in BOOLEAN :
        Handler_Lookup(r, h, u, hasGroup)
  \/ \E r \in R : Handler_LoggedIn(r)
  \/ \E r \in R, argsOk \in BOOLEAN, fail \in 0..2, empty \in BOOLEAN :
        Handler_Call(r, argsOk, fail, empty)

\* status, save and delete requests
AdminStep(R, U) ==
  \/ \E r \in R, u \in U : getStatusHandler(r, u)
  \/ \E r \in R, u \in U, saveErr \in SaveResults : saveSessionHandler(r, u, saveErr)
  \/ DeleteStepWith(R, U, SaveResults)

\* one client creates and deletes a session, another uses it
NextCall ==
  \/ CreateStep(Poster, PairUsers) \/ DeleteStep(Poster, PairUsers)
  \/ UpstreamStep(Reader, Users)

SpecCall == InitOne /\ [][NextCall]_vars

\* requests with and without a user id
NextZero ==
  \/ CreateStep(Poster, UserIDs)
  \/ AdminStep(Reader, UserIDs) \/ UpstreamStep(Reader, UserIDs)
  \/ \E r \in Reader : getQRHandler(r, 0)
  \/ \E r \in Reader : eventsHandler(r, 0)

SpecZero == InitOne /\ [][NextZero]_vars

\* creation with a backup configured, and deletes that make room for the
\* next creation
NextRestore ==
  \/ \E r \in Poster, u \in PairUsers : createSessionHandler(r, u)
  \/ CreateBodyOn(Poster, {NoErr}, RestoreOutcomes, StoreResults)
  \/ DeleteStep(Poster, PairUsers)
  \/ \E r \in Reader, u \in PairUsers : getStatusHandler(r, u)
  \/ \E r \in Reader : Return(r)

SpecRestore == InitBackup /\ [][NextRestore]_vars

\* managers with and without a usable key: creation, save and delete, and
\* encrypt and decrypt of a short text
NextKey ==
  \/ \E r \in Poster, u \in PairUsers : createSessionHandler(r, u)
  \/ CreateBodyOn(Poster, {NoErr}, RestoreOutcomes, {NoErr})
  \/ \E r \in Reader, u \in PairUsers, saveErr \in SaveResults :
        saveSessionHandler(r, u, saveErr)
  \/ DeleteStepWith(Reader, PairUsers, SaveResults)
  \/ \E x \in {<<>>, <<104>>}, nonce \in Nonces : Crypt_Encrypt(x, nonce)
  \/ Crypt_Decrypt

SpecKey == InitBackup /\ [][NextKey]_vars

\* a session is paired, saved, deleted and created again, with saves that
\* can fail
NextStale ==
  \/ \E r \in Poster, u \in PairUsers : createSessionHandler(r, u)
  \/ CreateBodyOn(Poster, {NoErr}, RestoreOutcomes, {NoErr})
  \/ \E p \in 1..Len(pumps) : Pump_Success(p)
  \/ \E r \in Reader, u \in PairUsers, saveErr \in SaveResults :
        saveSessionHandler(r, u, saveErr)
  \/ DeleteStepWith(Reader, PairUsers, SaveResults)

SpecStale == InitBackup /\ [][NextStale]_vars

\* one session under status, save and delete requests
NextAdmin ==
  \/ \E r \in Poster, u \in PairUsers : createSessionHandler(r, u)
  \/ CreateBodyOn(Poster, {NoErr}, RestoreOutcomes, {NoErr})
  \/ AdminStep(Req, PairUsers)

SpecAdmin == InitBackup /\ [][NextAdmin]_vars

\* ------------------------------------------- GetSession, step by step
\* GetSession: m.mu.RLock(); any number of readers hold the lock together
GetSession_RLock(r, u) ==
  /\ req[r].pc = "idle"
  /\ CanRLock
  /\ mu' = [mu EXCEPT !.r = @ \cup {r}]
  /\ req' = [req EXCEPT ![r] = Begin("GetSession", "gs_rlocked", u)]
  /\ UNCHANGED <<sessions, nsess, UserID, LastUsed, alive, gocRet, chanVars,
                 clientVars, pumps, histVars>>

\* the map lookup; on a hit the assignment session.LastUsed = time.Now()
\* begins: a time.Time is three words, stored one after the other
GetSession_Assign(r) ==
  LET s == sessions[req[r].user] IN
  /\ req[r].pc = "gs_rlocked"
  /\ IF s = NoSession
       THEN /\ req' = [req EXCEPT ![r].pc = "gs_runlock"]
            /\ UNCHANGED LastUsed
       ELSE /\ req' = [req EXCEPT ![r].pc = "gs_assigning", ![r].sid = s]
            /\ LastUsed' = [LastUsed EXCEPT ![s] = @ \cup {r}]
  /\ UNCHANGED <<sessions, mu, nsess, UserID, alive, gocRet, chanVars,
                 clientVars, pumps, histVars>>

\* the assignment is complete
GetSession_Assigned(r) ==
  /\ req[r].pc = "gs_assigning"
  /\ LastUsed' = [LastUsed EXCEPT ![req[r].sid] = @ \ {r}]
  /\ req' = [req EXCEPT ![r].pc = "gs_runlock"]
  /\ UNCHANGED <<sessions, mu, nsess, UserID, alive, gocRet, chanVars,
                 clientVars, pumps, histVars>>

\* the deferred m.mu.RUnlock(); the caller answers 404 on nil and goes on
\* with the session otherwise
GetSession_RUnlock(r) ==
  /\ req[r].pc = "gs_runlock"
  /\ mu' = [mu EXCEPT !.r = @ \ {r}]
  /\ req' = [req EXCEPT ![r] =
               Finish(r, IF req[r].sid = NoSession THEN "404" ELSE "200")]
  /\ UNCHANGED <<sessions, nsess, UserID, LastUsed, alive, gocRet, chanVars,
                 clientVars, pumps, histVars>>

GetSessionStep(R, U) ==
  \/ \E r \in R, u \in U : GetSession_RLock(r, u)
  \/ \E r \in R : GetSession_Assign(r)
  \/ \E r \in R : GetSession_Assigned(r)
  \/ \E r \in R : GetSession_RUnlock(r)

\* every client creates sessions and looks them up
NextUsed ==
  \/ CreateStep(Req, PairUsers)
  \/ GetSessionStep(Req, PairUsers)

SpecUsed == InitOne /\ [][NextUsed]_vars

\* ------------------------------------------------------ SIGINT / SIGTERM
Signals == {"SIGINT", "SIGTERM"}

\* main registers the routes and blocks in http.ListenAndServe: it installs
\* no signal handler, so on the signal it makes no call
TeardownCalls(sig) == <<>>

\* the process receives sig: without signal.Notify the Go runtime ends the
\* process at once, and every goroutine (handlers, pumps, main) with it
Signal(sig) ==
  /\ main.pc = "serving"
  /\ main' = [pc |-> "exited", calls |-> TeardownCalls(sig)]
  /\ req' = [r \in Req |-> [req[r] EXCEPT !.pc = "exited"]]
  /\ pumps' = [p \in DOMAIN pumps |-> [pumps[p] EXCEPT !.pc = "exited"]]
  /\ UNCHANGED <<mgrVars, chanVars, clientVars, nevents, enqLog, subs, lastEvt,
                 qrLog, crypt, monitor>>

\* sessions are created and deleted until the process is signalled
NextSignal ==
  \/ \E r \in Poster, u \in PairUsers : createSessionHandler(r, u)
  \/ CreateBodyOn(Poster, ConnectFailures, RestoreOutcomes, {NoErr})
  \/ DeleteStepWith(Reader, PairUsers, SaveResults)
  \/ \E sig \in Signals : Signal(sig)

SpecSignal == InitBackup /\ [][NextSignal]_vars

\* ------------------------------------------------------ inbound monitor
\* (plugin, monitorWaMeowProvider)
MaxSources == 3

MAX_RECONNECT_DELAY == 30000
BASE_RECONNECT_DELAY == 1000

Min(a, b) == IF a < b THEN a ELSE b

\* getReconnectDelay without its jitter (Math.random() * 500)
getReconnectDelay(attempts) ==
  Min(BASE_RECONNECT_DELAY * 2 ^ attempts, MAX_RECONNECT_DELAY)

StatusResults == {"logged_in", "not_logged_in", "error"}

\* getSelfPhone: the digits of status.phone, or null when the status has no
\* phone or the request fails
SelfPhones == {"digits", "null"}

\* event sources that have not been closed (readyState CONNECTING or OPEN)
LiveSources == {e \in DOMAIN monitor.es : monitor.es[e] # "closed"}

\* `await client.getStatus(userId)` settles: the monitor goes on only for a
\* logged-in user
Monitor_Status(res) ==
  /\ monitor.pc = "getStatus"
  /\ monitor' = [monitor EXCEPT
                   !.pc = IF res = "logged_in" THEN "getSelfPhone" ELSE "returned"]
  /\ UNCHANGED <<mgrVars, chanVars, clientVars, req, pumps, nevents, enqLog,
                 subs, lastEvt, qrLog, crypt, main>>

\* createAndConnectEventSource up to `return es`: a new EventSource, with its
\* listeners installed
createAndConnectEventSource(m) ==
  [m EXCEPT !.es = Append(m.es, "connecting")]

\* `await getSelfPhone()` settles and the rest of the function runs in one
\* turn: the initial event source is created and assigned to currentEs, the
\* abort listeners are added (on a signal that is already aborted they are
\* never called) and the pending promise is returned
Monitor_Connect(phone) ==
  /\ monitor.pc = "getSelfPhone"
  /\ monitor' = [createAndConnectEventSource(monitor) EXCEPT
                   !.selfPhone = phone,
                   !.currentEs = Len(monitor.es) + 1, !.pc = "running"]
  /\ UNCHANGED <<mgrVars, chanVars, clientVars, req, pumps, nevents, enqLog,
                 subs, lastEvt, qrLog, crypt, main>>

\* cleanup: currentEs?.close()
cleanup(m) ==
  IF m.currentEs = 0 THEN m
  ELSE [m EXCEPT !.es[m.currentEs] = "closed"]

\* the caller aborts the signal: the listeners registered so far run (cleanup,
\* then resolve)
Monitor_Abort ==
  /\ ~monitor.aborted
  /\ monitor' = IF monitor.pc = "running"
                THEN [cleanup(monitor) EXCEPT !.aborted = TRUE, !.pc = "resolved"]
                ELSE [monitor EXCEPT !.aborted = TRUE]
  /\ UNCHANGED <<mgrVars, chanVars, clientVars, req, pumps, nevents, enqLog,
                 subs, lastEvt, qrLog, crypt, main>>

\* es.onopen
ES_Open(e) ==
  /\ e \in DOMAIN monitor.es
  /\ monitor.es[e] = "connecting"
  /\ monitor' = [monitor EXCEPT !.es[e] = "open", !.reconnectAttempts = 0]
  /\ UNCHANGED <<mgrVars, chanVars, clientVars, req, pumps, nevents, enqLog,
                 subs, lastEvt, qrLog, crypt, main>>

\* the "message" listener of es, for an event that parses to a message with
\* a payload
ES_Message(e) ==
  /\ e \in DOMAIN monitor.es
  /\ monitor.es[e] = "open"
  /\ monitor.received < MaxEvents
  /\ monitor' = [monitor EXCEPT !.reconnectAttempts = 0, !.received = @ + 1]
  /\ UNCHANGED <<mgrVars, chanVars, clientVars, req, pumps, nevents, enqLog,
                 subs, lastEvt, qrLog, crypt, main>>

\* the test of the abort signal in es.onerror
ErrorSeesAbort(m) == m.aborted

\* es.onerror: es is closed and, unless aborted, a reconnect is scheduled
ES_Error(e) ==
  /\ e \in DOMAIN monitor.es
  /\ monitor.es[e] # "closed"
  /\ ErrorSeesAbort(monitor) \/ Len(monitor.es) + Len(monitor.timers) < MaxSources
  /\ monitor' =
       IF ErrorSeesAbort(monitor)
       THEN [monitor EXCEPT !.es[e] = "closed"]
       ELSE [monitor EXCEPT
               !.es[e] = "closed",
               !.timers = Append(@, getReconnectDelay(monitor.reconnectAttempts)),
               !.reconnectAttempts = @ + 1]
  /\ UNCHANGED <<mgrVars, chanVars, clientVars, req, pumps, nevents, enqLog,
                 subs, lastEvt, qrLog, crypt, main>>

\* the test of the abort signal in the setTimeout callback
TimerSeesAbort(m) == m.aborted

\* the setTimeout callback of es.onerror runs
Reconnect_Timer ==
  /\ monitor.timers # <<>>
  /\ monitor' =
       IF TimerSeesAbort(monitor)
       THEN [monitor EXCEPT !.timers = Tail(@)]
       ELSE [createAndConnectEventSource(monitor) EXCEPT
               !.timers = Tail(@), !.currentEs = Len(monitor.es) + 1]
  /\ UNCHANGED <<mgrVars, chanVars, clientVars, req, pumps, nevents, enqLog,
                 subs, lastEvt, qrLog, crypt, main>>

NextMonitor ==
  \/ \E res \in StatusResults : Monitor_Status(res)
  \/ \E phone \in SelfPhones : Monitor_Connect(phone)
  \/ Monitor_Abort
  \/ \E e \in 1..MaxSources : ES_Open(e)
  \/ \E e \in 1..MaxSources : ES_Message(e)
  \/ \E e \in 1..MaxSources : ES_Error(e)
  \/ Reconnect_Timer

\* the monitor is started against a gateway that holds no session yet
InitMonitor == Init /\ deviceDB = [u \in UserIDs |-> FALSE]

SpecMonitor == InitMonitor /\ [][NextMonitor]_vars

\* QR streams beside the pump; the runtime fires a started timer and the
\* select takes a ready timeout case
NextQR ==
  \/ CreateOnce(Poster, PairUsers)
  \/ PumpStep(MaxCodes)
  \/ QRStep(Req, PairUsers, FillCodes)
  \/ \E r \in Reader : Return(r)

FairQR ==
  \A r \in Req : WF_vars(Timer_Fire(r)) /\ WF_vars(getQRHandler_Timeout(r))

SpecQR == InitOne /\ [][NextQR]_vars /\ FairQR

\* a subscriber that stays connected
ReadStep(R, U, maxEv) ==
  \/ \E r \in R, u \in U : eventsHandler(r, u)
  \/ \E r \in R : eventsHandler_Frame(r, maxEv)
  \/ \E r \in R : Return(r)

NextEvt ==
  \/ CreateOnce(Poster, PairUsers)
  \/ ReadStep(Reader, PairUsers, MaxFrames)
  \/ \E s \in 1..nsess, e \in RichEvents(nevents + 1) : DeliverEvent(s, e, MaxEvents)

SpecEvt == InitOne /\ [][NextEvt]_vars

\* the device DB of every user holds an identity from an earlier run
InitDevices == Init /\ \A u \in UserIDs : deviceDB[u]

\* one session per user id, each with events from its own client, and
\* /events subscribers
NextIso ==
  \/ \E r \in Poster, u \in UserIDs :
        sessions[u] = NoSession /\ createSessionHandler(r, u)
  \/ CreateBodyOn(Poster, {NoErr}, {"disabled"}, {NoErr})
  \/ ReadStep(Reader, Users, MaxFrames)
  \/ \E s \in 1..nsess, e \in PlainEvents(nevents + 1) : DeliverEvent(s, e, MaxEvents)

SpecIso == InitDevices /\ [][NextIso]_vars

\* a session is deleted and created again under open /events and QR streams
NextRebind ==
  \/ CreateStep(Poster, PairUsers) \/ DeleteStep(Poster, PairUsers)
  \/ ReadStep(Reader, PairUsers, MaxFrames)
  \/ \E r \in Reader, u \in PairUsers : getQRHandler(r, u)
  \/ \E r \in Reader : Timer_Fire(r)
  \/ \E r \in Reader : getQRHandler_Timeout(r)
  \/ \E s \in 1..nsess, e \in PlainEvents(nevents + 1) : DeliverEvent(s, e, MaxEvents)

SpecRebind == InitPaired /\ [][NextRebind]_vars

\* POST /sessions repeated for an unpaired user, against an upstream whose
\* GetQRChannel can fail; another client deletes the session
NextPumps ==
  \/ \E r \in Poster, u \in PairUsers : createSessionHandler(r, u)
  \/ \E r \in Poster : Return(r)
  \/ \E r \in Poster : GetOrCreateSession_Lookup(r)
  \/ \E r \in Poster : GetOrCreateSession_Create(r, "disabled", NoErr)
  \/ \E r \in Poster, qrErr \in QRChannelResults, connErr \in ConnectFailures :
        createSessionHandler_Branch(r, qrErr, connErr, MaxPumps + 1)
  \/ \E p \in 1..Len(pumps) : Pump_Success(p)
  \/ \E p \in 1..Len(pumps) : Pump_Closed(p)
  \/ DeleteStep(Reader, PairUsers)

SpecPumps == InitOne /\ [][NextPumps]_vars

\* the upstream ends every pairing stream: after the success event, or
\* after its last code has timed out
FairPumps ==
  \A p \in 1..(MaxPumps + 1) : WF_vars(p <= Len(pumps) /\ Pump_Closed(p))

SpecPumpsFair == SpecPumps /\ FairPumps

\* both queues driven to capacity: one session, text messages only
NextFill ==
  \/ CreateOnce(Poster, PairUsers)
  \/ PumpStep(FillCodes)
  \/ ReadStep(Reader, PairUsers, MaxFrames)
  \/ \E s \in 1..nsess, e \in PlainEvents(nevents + 1) : DeliverEvent(s, e, FillEvents)

SpecFill == InitOne /\ [][NextFill]_vars

\* one subscriber that reads a long run of text messages on a paired session
NextOrder ==
  \/ CreateOnce(Poster, PairUsers)
  \/ ReadStep(Reader, PairUsers, FillEvents)
  \/ \E s \in 1..nsess, e \in PlainEvents(nevents + 1) : DeliverEvent(s, e, FillEvents)

SpecOrder == InitPaired /\ [][NextOrder]_vars

\* POST /sessions against an upstream whose Connect also reports that the
\* client is connected already
NextConn ==
  \/ \E r \in Req, u \in PairUsers : createSessionHandler(r, u)
  \/ CreateBodyWith(Req, ConnectResults)
  \/ PumpStep(MaxCodes)

SpecConn == InitOne /\ [][NextConn]_vars

\* a QR stream that stays open beside a pump that issues one code more than
\* the queue and one read can take
QRReadStep(R, U, maxFr) ==
  \/ \E r \in R, u \in U : getQRHandler(r, u)
  \/ \E r \in R : getQRHandler_Code(r, maxFr)
  \/ \E r \in R : Return(r)

NextCodes ==
  \/ CreateOnce(Poster, PairUsers)
  \/ PumpStep(FillCodes + 1)
  \/ QRReadStep(Reader, PairUsers, FillCodes + 1)

SpecCodes == InitOne /\ [][NextCodes]_vars

\* ------------------------------------------------------------ properties
LiveOf(u) == {s \in alive : UserID[s] = u}

\* C1: every GetOrCreateSession(u) call since the last removal of u's session
\* returned the same instance, which is the one instance of u in m.sessions.
C1_OneSessionPerUser ==
  \A u \in Users :
    /\ Cardinality(gocRet[u]) <= 1
    /\ Cardinality(LiveOf(u)) <= 1
    /\ gocRet[u] \subseteq LiveOf(u)
    /\ LiveOf(u) = IF sessions[u] = NoSession THEN {} ELSE {sessions[u]}

\* two POST /sessions for the same user are in flight and both hold the session
C1_Witness ==
  \E r1, r2 \in Req :
    /\ r1 # r2
    /\ req[r1].pc = "cs_branch" /\ req[r2].pc = "cs_branch"
    /\ req[r1].user = req[r2].user
    /\ req[r1].sid = req[r2].sid

\* the step is one handleEvent call on instance s with event e
Delivered(s, e) ==
  /\ nevents' = nevents + 1
  /\ lastEvt'.sid = s
  /\ lastEvt'.evt = e

\* C2: the event queue never holds more than 100 payloads and the QR queue
\* never more than 10 codes, whoever produces or consumes.
C2_BoundedQueues ==
  \A s \in 1..nsess :
    /\ Len(EventChan[s]) <= EventChanCap
    /\ Len(QRChannel[s]) <= QRChannelCap

\* both queues are at capacity after their producers pushed once more
C2_Witness ==
  \E s \in 1..nsess :
    /\ Len(EventChan[s]) = EventChanCap
    /\ Len(QRChannel[s]) = QRChannelCap
    /\ nevents > EventChanCap
    /\ \E p \in 1..Len(pumps) : pumps[p].sid = s /\ pumps[p].issued > QRChannelCap

\* C3: a Message event handled while the queue is full changes nothing: the
\* queue keeps its contents and order, the payload is discarded, and no
\* request, session or pump sees the overflow.
C3_DropNewest ==
  [][\A s \in 1..nsess :
       (Delivered(s, lastEvt'.evt) /\ Len(EventChan[s]) = EventChanCap)
         => /\ EventChan' = EventChan
            /\ enqLog' = enqLog
            /\ lastEvt'.accepted = 0
            /\ UNCHANGED <<mgrVars, QRChannel, LoginDone, clientVars, req, pumps>>]_vars

\* a text message has just been dropped on a full queue
C3_Witness ==
  /\ lastEvt.sid # NoSession
  /\ IsMessage(lastEvt.evt) /\ hasContent(lastEvt.evt.Message)
  /\ lastEvt.accepted = 0
  /\ Len(EventChan[lastEvt.sid]) = EventChanCap

FrameData(fr) == [i \in 1..Len(fr) |-> fr[i].data]
Encoded(q) == [i \in 1..Len(q) |-> Marshal(q[i])]

\* C4: for the one subscriber of a session, the frames written so far followed
\* by the encodings of the queue's contents are exactly the encodings of the
\* payloads the queue accepted, in order: the Nth frame carries the Nth
\* accepted payload.
C4_FramesInOrder ==
  \A r \in Req :
    (req[r].pc = "events" /\ subs[req[r].sid] = 1)
      => FrameData(req[r].frames) \o Encoded(EventChan[req[r].sid])
           = Encoded(enqLog[req[r].sid])

\* the subscriber has written a frame that was enqueued after a drop
C4_Witness ==
  \E r \in Req :
    /\ req[r].pc = "events" /\ subs[req[r].sid] = 1
    /\ Len(req[r].frames) > EventChanCap
    /\ Len(enqLog[req[r].sid]) < nevents

\* the enclosing payload or a contact payload has a non-empty content field
NonEmptyContent(evt) ==
  LET p == EnclosingPayload(evt) IN
  \/ p.Text # EmptyStr
  \/ p.MediaType # ""
  \/ p.Caption # EmptyStr
  \/ p.ContactName # EmptyStr
  \/ (evt.Message.ContactsArray # Nil /\ evt.Message.ContactsArray[1] # <<>>)

\* C5: a Message event enqueues a payload iff the payload carries a non-empty
\* content field (the queue has room in every state of SpecEvt).
C5_EmitsIffNonEmpty ==
  (lastEvt.sid # NoSession /\ IsMessage(lastEvt.evt))
    => ((lastEvt.accepted > 0) <=> NonEmptyContent(lastEvt.evt))

Suffix(q, n) == SubSeq(q, Len(q) - n + 1, Len(q))

\* what the claim expects for contact c of the message with id `id`
ExpectedContact(id, c) ==
  [Type |-> "message",
   Payload |-> [ID |-> id, Text |-> EmptyStr, MediaType |-> "contact",
                Caption |-> EmptyStr,
                ContactName |-> IF c.DisplayName = Nil THEN EmptyStr
                                ELSE c.DisplayName[1]]]

ContactsOf(evt) ==
  LET cs == evt.Message.ContactsArray[1] IN
  [i \in 1..Len(cs) |-> ExpectedContact(evt.ID, cs[i])]

HasContactsArray(evt) == IsMessage(evt) /\ evt.Message.ContactsArray # Nil

\* C6 as claimed: a message with a ContactsArrayMessage enqueues its contact
\* payloads and nothing else, whatever else it carries.
C6_OnlyContacts ==
  (lastEvt.sid # NoSession /\ HasContactsArray(lastEvt.evt))
    => Suffix(enqLog[lastEvt.sid], lastEvt.accepted) = ContactsOf(lastEvt.evt)

\* C6 amended: with room for them, the n contact payloads are enqueued in
\* order with the parent id, followed by the enclosing payload exactly when
\* the message carries another content field.
C6_ContactsThenEnclosing ==
  [][\A s \in 1..nsess :
       (Delivered(s, lastEvt'.evt) /\ HasContactsArray(lastEvt'.evt))
         => LET e == lastEvt'.evt
                out == ContactsOf(e) \o
                         (IF hasContent(e.Message)
                            THEN <<MessageEvent(EnclosingPayload(e))>> ELSE <<>>)
            IN Len(EventChan[s]) + Len(out) <= EventChanCap
                 => EventChan'[s] = EventChan[s] \o out]_vars

\* two contacts and a text were delivered: three payloads were accepted
C6_Witness ==
  /\ lastEvt.sid # NoSession
  /\ HasContactsArray(lastEvt.evt)
  /\ Len(lastEvt.evt.Message.ContactsArray[1]) = 2
  /\ lastEvt.evt.Message.Conversation # Nil
  /\ lastEvt.accepted = 3

\* C7: an event that is not a Message leaves the event queue as it was.
C7_OnlyMessagesEnqueue ==
  [][\A s \in 1..nsess :
       (Delivered(s, lastEvt'.evt) /\ lastEvt'.evt.kind # "Message")
         => EventChan' = EventChan /\ enqLog' = enqLog]_vars

\* a MediaRetry event was handled while the queue held a payload
C7_Witness ==
  /\ lastEvt.sid # NoSession
  /\ lastEvt.evt.kind = "MediaRetry"
  /\ EventChan[lastEvt.sid] # <<>>

\* C8 as claimed: a POST /sessions that found a device id in the store
\* answers connected and never asked for a pairing stream.
C8_PairedAnswersConnected ==
  \A r \in Req :
    (req[r].pc = "return" /\ req[r].op = "createSession" /\ req[r].sawID)
      => (req[r].resp = "connected" /\ ~req[r].qrChan)

\* C8 amended: the step of POST /sessions that finds a device id in the store
\* obtains no pairing stream, spawns no pump, leaves qr_codes and login_done
\* alone, and answers connected with the client connected, or 500 when the
\* Connect call it makes on a disconnected client fails.
C8_PairedBypassesPairing ==
  [][\A r \in Req :
       (req[r].pc = "cs_branch" /\ req'[r].pc # "cs_branch" /\ storeID[req[r].sid])
         => /\ pumps' = pumps
            /\ QRChannel' = QRChannel
            /\ LoginDone' = LoginDone
            /\ ~req'[r].qrChan
            /\ \/ req'[r].resp = "connected" /\ connected'[req[r].sid]
               \/ req'[r].resp = "500" /\ ~connected[req[r].sid]]_vars

\* a POST on a paired session answered connected while codes of the earlier
\* pairing were still queued
C8_Witness ==
  \E r \in Req :
    /\ req[r].pc = "return" /\ req[r].op = "createSession"
    /\ req[r].sawID /\ req[r].resp = "connected"
    /\ sessions[req[r].user] # NoSession
    /\ QRChannel[sessions[req[r].user]] # <<>>

\* C9: a pump forwards each code by a push that succeeds iff fewer than 10
\* codes are pending and never waits; at its first success event it leaves
\* login_done set and exits; from then on it does nothing, so it enqueues no
\* further code.
C9_PumpForwardsThenExits ==
  [][\A p \in 1..Len(pumps) :
       LET s == pumps[p].sid
           code == <<p, pumps[p].issued + 1>> IN
       /\ (pumps'[p].issued # pumps[p].issued)
            => /\ pumps[p].pc = "running" /\ pumps'[p].pc = "running"
               /\ QRChannel'[s] = IF Len(QRChannel[s]) < QRChannelCap
                                    THEN Append(QRChannel[s], code)
                                    ELSE QRChannel[s]
       /\ (pumps[p].atSuccess = -1 /\ pumps'[p].atSuccess # -1)
            => /\ LoginDone'[s] = <<TRUE>>
               /\ pumps'[p].pc = "exited"
               /\ QRChannel' = QRChannel
       /\ (pumps[p].atSuccess # -1)
            => /\ pumps'[p] = pumps[p]
               /\ \A i \in 1..Len(qrLog'[s]) :
                    qrLog'[s][i][1] = p => qrLog'[s][i][2] <= pumps[p].atSuccess]_vars

\* a pump dropped a code on the full queue, then handled success and exited
C9_Witness ==
  \E p \in 1..Len(pumps) :
    /\ pumps[p].pc = "exited"
    /\ pumps[p].atSuccess > QRChannelCap
    /\ Len(QRChannel[pumps[p].sid]) = QRChannelCap
    /\ LoginDone[pumps[p].sid] # <<>>

QRFrames(fr) == \A i \in 1..Len(fr) : fr[i].event = "qr"

EndsWith(fr, ev) ==
  /\ fr # <<>>
  /\ fr[Len(fr)].event = ev
  /\ QRFrames(SubSeq(fr, 1, Len(fr) - 1))

OnSession(r) == req[r].op = "getQR" /\ req[r].resp \notin {"400", "404"}

\* a QR stream is running with only qr frames written, or it has returned in
\* one of the three ways
QRStreamShape ==
  \A r \in Req :
    OnSession(r)
      => \/ req[r].pc = "qr" /\ req[r].resp = "none" /\ QRFrames(req[r].frames)
         \/ /\ req[r].pc = "return" /\ req[r].resp = "success"
            /\ EndsWith(req[r].frames, "success")
         \/ /\ req[r].pc = "return" /\ req[r].resp = "timeout"
            /\ EndsWith(req[r].frames, "timeout")
            /\ req[r].timer = "fired"
         \/ /\ req[r].pc = "return" /\ req[r].resp = "closed"
            /\ QRFrames(req[r].frames)

\* a returned QR stream writes nothing more
QRStreamFinal ==
  \A r \in Req :
    (OnSession(r) /\ req[r].pc = "return")
      => (req'[r] = req[r] \/ req'[r] = IdleReq)

\* C10: every QR stream on an existing session ends with one success frame,
\* or with one timeout frame once the timer has fired, or on disconnect with
\* no final frame; nothing is written after it ended; and with a timer that
\* fires, every stream ends.
C10_QRStreamEnds ==
  /\ []QRStreamShape
  /\ [][QRStreamFinal]_vars
  /\ \A r \in Req : (req[r].pc = "qr") ~> (req[r].pc # "qr")

\* a stream wrote both codes and then the success frame
C10_Witness ==
  \E r \in Req :
    /\ OnSession(r) /\ req[r].pc = "return" /\ req[r].resp = "success"
    /\ Len(req[r].frames) = MaxCodes + 1

\* a stream ended with the timeout frame
C10_WitnessTimeout ==
  \E r \in Req :
    /\ OnSession(r) /\ req[r].pc = "return" /\ req[r].resp = "timeout"

\* the codes written as qr frames, in the order written
QRData(fr) ==
  LET q == SelectSeq(fr, LAMBDA f : f.event = "qr") IN
  [i \in 1..Len(q) |-> q[i].data]

\* C11: the codes a QR stream has written were issued by a pump of the
\* session, and those of one pump appear in strictly increasing issue order:
\* a subsequence of what was issued, with no code written twice.
C11_QRFramesInIssueOrder ==
  \A r \in Req :
    req[r].op = "getQR"
      => LET d == QRData(req[r].frames) IN
         /\ \A i \in 1..Len(d) :
              /\ d[i][1] \in 1..Len(pumps)
              /\ d[i][2] \in 1..pumps[d[i][1]].issued
         /\ \A i, j \in 1..Len(d) :
              (i < j /\ d[i][1] = d[j][1]) => d[i][2] < d[j][2]

\* a stream wrote a code issued after one that the full queue dropped
C11_Witness ==
  \E r \in Req :
    /\ req[r].op = "getQR"
    /\ LET d == QRData(req[r].frames) IN
       \E i \in 1..Len(d) - 1 : d[i + 1][2] > d[i][2] + 1

CallsOf(r) == {req[r].calls[i] : i \in 1..Len(req[r].calls)}

\* C12: a POST /sessions whose Connect call returned "already connected" is
\* answered needs_qr or connected, never 500.
C12_AlreadyConnectedTolerated ==
  \A r \in Req :
    (/\ req[r].pc = "return" /\ req[r].op = "createSession"
     /\ <<"Connect", "already connected">> \in CallsOf(r))
      => req[r].resp \in {"needs_qr", "connected"}

\* C13: a request whose user_id is missing, zero or unparsable (user 0) is
\* answered 400 at once, with no upstream call made, and no session is ever
\* created for user 0
C13_ZeroUserRejected ==
  /\ sessions[0] = NoSession
  /\ \A r \in Req : (req[r].pc # "idle" /\ req[r].user = 0) =>
        /\ req[r].pc = "return"
        /\ req[r].resp = "400"
        /\ req[r].calls = <<>>

\* C14 as stated: whenever a chat, messaging, media or group handler takes a
\* request of a user without a session, the answer is 404
C14_NoSessionAnswers404 ==
  [][\A r \in Req :
       (/\ req[r].pc = "idle" /\ req'[r].pc # "idle"
        /\ req'[r].op \in UpstreamHandlers
        /\ sessions[req'[r].user] = NoSession)
       => req'[r].resp = "404"]_vars

\* C14, amended: for a request that carries the group_jid a group handler
\* requires, no session is answered 404 and a client that is not logged in
\* 400, in both cases (and when group_jid is missing) with no upstream call;
\* an upstream call is made only after the lookup found the session and the
\* logged-in check passed on it
C14_LookupAndLoginBeforeCalls ==
  [][\A r \in Req : req'[r].op \in UpstreamHandlers =>
       /\ (/\ req[r].pc = "idle" /\ req'[r].pc # "idle"
           /\ req'[r].op \in GroupHandlers => req'[r].group
           /\ sessions[req'[r].user] = NoSession)
          => (req'[r].pc = "return" /\ req'[r].resp = "404" /\ req'[r].calls = <<>>)
       /\ (/\ req[r].pc = "idle" /\ req'[r].pc # "idle"
           /\ req'[r].op \in GroupHandlers /\ ~req'[r].group)
          => (req'[r].pc = "return" /\ req'[r].resp = "400" /\ req'[r].calls = <<>>)
       /\ (/\ req[r].pc = "h_login" /\ req'[r].pc # "h_login"
           /\ ~(connected[req[r].sid] /\ storeID[req[r].sid]))
          => (req'[r].pc = "return" /\ req'[r].resp = "400" /\ req'[r].calls = <<>>)
       /\ req'[r].pc = "h_login" =>
            \/ req[r].pc = "h_login"
            \/ /\ req[r].pc = "idle"
               /\ req'[r].sid # NoSession
               /\ req'[r].sid = sessions[req'[r].user]
       /\ req'[r].pc = "h_call" =>
            \/ req[r].pc = "h_call"
            \/ /\ req[r].pc = "h_login"
               /\ connected[req[r].sid] /\ storeID[req[r].sid]
       /\ req'[r].calls # req[r].calls => (req[r].pc = "h_call" \/ req'[r].calls = <<>>)]_vars

\* a download request was refused as not logged in, with no upstream call,
\* while the user has a session
C14_Witness ==
  \E r \in Req :
    /\ req[r].op = "downloadMedia" /\ req[r].pc = "return"
    /\ sessions[req[r].user] # NoSession
    /\ req[r].resp = "400" /\ req[r].calls = <<>>

\* C15: RemoveSession on an existing session runs with the exclusive lock
\* held and makes, in this order, Disconnect, one saveSessionToJoBot call and
\* the delete; whatever the save returns, the client is disconnected and the
\* user has no entry when it returns
C15_RemoveDisconnectsSavesDeletes ==
  [][\A r \in Req :
       (/\ req[r].pc = "rm_locked" /\ req'[r].pc # "rm_locked"
        /\ sessions[req[r].user] # NoSession)
       => /\ mu.w = r
          /\ \E e \in SaveResults :
               req'[r].calls = <<<<"Disconnect", "nil">>,
                                 <<"saveSessionToJoBot", e>>,
                                 <<"delete", "nil">>>>
          /\ ~connected'[sessions[req[r].user]]
          /\ sessions'[req[r].user] = NoSession
          /\ req'[r].resp = "disconnected"]_vars

\* a remove whose save failed has returned and the user has no session
C15_Witness ==
  \E r \in Req :
    /\ req[r].op = "deleteSession" /\ req[r].pc = "return"
    /\ \E i \in 1..Len(req[r].calls) :
         req[r].calls[i] = <<"saveSessionToJoBot", "save failed">>
    /\ sessions[req[r].user] = NoSession

\* C16: a user gains an entry of the sessions map only in the create step of
\* a POST /sessions for that user; a status, save or delete request for a
\* user without a session leaves the map as it is, delete answering
\* {status: "disconnected"} and status 200 with connected and logged_in false
C16_OnlyCreateAddsEntry ==
  [][/\ \A u \in UserIDs :
          (sessions[u] = NoSession /\ sessions'[u] # NoSession) =>
            \E r \in Req : /\ req[r].op = "createSession" /\ req[r].user = u
                            /\ req[r].pc = "goc_create" /\ req'[r].pc = "cs_branch"
     /\ \A r \in Req :
          (/\ req'[r] # req[r]
           /\ req'[r].op \in {"getStatus", "saveSession", "deleteSession"}
           /\ sessions[req'[r].user] = NoSession)
          => /\ sessions' = sessions
             /\ (req'[r].op = "deleteSession" /\ req'[r].pc = "return" /\ req'[r].user # 0)
                  => (req'[r].resp = "disconnected" /\ req'[r].calls = <<>>)
             /\ (req'[r].op = "getStatus" /\ req'[r].user # 0)
                  => /\ req'[r].pc = "return" /\ req'[r].resp = "200"
                     /\ req'[r].body = <<<<"connected", FALSE>>, <<"logged_in", FALSE>>>>
             /\ (req'[r].op = "saveSession" /\ req'[r].user # 0)
                  => (req'[r].pc = "return" /\ req'[r].calls = <<>>)]_vars

\* a status and a delete request for a user without a session have returned
C16_Witness ==
  \E r1, r2 \in Req :
    /\ req[r1].op = "getStatus" /\ req[r1].pc = "return" /\ req[r1].resp = "200"
    /\ req[r2].op = "deleteSession" /\ req[r2].pc = "return"
    /\ req[r2].resp = "disconnected" /\ req[r2].calls = <<>>
    /\ req[r1].user = req[r2].user /\ sessions[req[r1].user] = NoSession
    /\ nsess = 0

\* C17: whatever the restore met, GetOrCreateSession goes on to open the
\* store, and it returns the session exactly if sqlstore.New and
\* GetFirstDevice returned no error, and an error (500) otherwise
C17_RestoreNeverBlocksCreate ==
  [][\A r \in Req :
       (req[r].pc = "goc_create" /\ req'[r].pc # "goc_create") =>
         \E restore \in RestoreOutcomes, e1, e2 \in {"nil", "failed"} :
           /\ \/ req'[r].calls = <<<<"fetchSessionFromJoBot", restore>>,
                                    <<"sqlstore.New", e1>>, <<"GetFirstDevice", e2>>>>
              \/ /\ e1 = "failed"
                 /\ req'[r].calls = <<<<"fetchSessionFromJoBot", restore>>,
                                       <<"sqlstore.New", e1>>>>
           /\ IF e1 = "nil" /\ e2 = "nil"
                THEN /\ req'[r].pc = "cs_branch"
                     /\ sessions'[req[r].user] = req'[r].sid
                     /\ req'[r].sid # NoSession
                ELSE /\ req'[r].pc = "return"
                     /\ req'[r].resp = "500"]_vars

\* a session was created after the restore failed to write the DB file
C17_Witness ==
  \E r \in Req :
    /\ req[r].op = "createSession" /\ req[r].pc = "cs_branch"
    /\ req[r].calls[1] = <<"fetchSessionFromJoBot", "write failed">>
    /\ sessions[req[r].user] = req[r].sid

\* C18: when sqlstore.New or GetFirstDevice fails, GetOrCreateSession
\* inserts nothing, the user has no session and POST /sessions answers 500
C18_StoreFailureAbortsCreate ==
  [][\A r \in Req :
       (/\ req[r].pc = "goc_create" /\ req'[r].pc # "goc_create"
        /\ \E i \in 1..Len(req'[r].calls) :
             req'[r].calls[i] \in {<<"sqlstore.New", "failed">>,
                                   <<"GetFirstDevice", "failed">>})
       => /\ sessions' = sessions /\ nsess' = nsess
          /\ sessions'[req[r].user] = NoSession
          /\ req'[r].pc = "return" /\ req'[r].resp = "500"]_vars

\* a POST /sessions has answered 500 after GetFirstDevice failed, and a
\* status request that came later found no session
C18_Witness ==
  \E r1, r2 \in Req :
    /\ req[r1].op = "createSession" /\ req[r1].pc = "return" /\ req[r1].resp = "500"
    /\ Len(req[r1].calls) = 3 /\ req[r1].calls[3] = <<"GetFirstDevice", "failed">>
    /\ req[r2].op = "getStatus" /\ req[r2].pc = "return"
    /\ req[r2].user = req[r1].user /\ req[r2].body[1] = <<"connected", FALSE>>
    /\ sessions[req[r1].user] = NoSession /\ nsess = 0

\* C19: a POST /sessions/save whose backup save failed is not answered
\* {status: "saved"}
C19_SaveFailurePropagated ==
  \A r \in Req :
    (/\ req[r].op = "saveSession" /\ req[r].pc = "return"
     /\ \E i \in 1..Len(req[r].calls) :
          req[r].calls[i] = <<"saveSessionToJoBot", "save failed">>)
    => req[r].resp # "saved"

\* C20: with a valid 32-byte key, encrypt succeeds, and decrypt of its
\* output succeeds and returns the plaintext byte for byte
C20_DecryptInvertsEncrypt ==
  Len(crypt.key) = 32 =>
    /\ crypt.stage = "encrypted" => (crypt.err = "nil" /\ crypt.out # <<>>)
    /\ crypt.stage = "decrypted" => (crypt.err = "nil" /\ crypt.result = crypt.plain)

\* a plaintext of two bytes or more came back from decrypt under a key that
\* is not all zero
C20_Witness ==
  /\ crypt.stage = "decrypted" /\ Len(crypt.key) = 32 /\ crypt.key[1] # 0
  /\ Len(crypt.plain) >= 2 /\ crypt.plain[1] # crypt.plain[2]
  /\ crypt.result = crypt.plain

\* C21: in a manager whose configured key is absent, is not base64 or does
\* not decode to 32 bytes, encrypt and decrypt return an error, every
\* restore and save returns at once without a request, and no DB file is
\* written
C21_BadKeyDisablesPersistence ==
  [][(LET d == DecodeString(crypt.keyB64) IN
        crypt.keyB64 = <<>> \/ ~d.ok \/ Len(d.data) # 32)
     => /\ crypt'.stage \in {"encrypted", "decrypted"} =>
             (crypt'.err # "nil" /\ crypt'.out = <<>> /\ crypt'.result = <<>>)
        /\ \A r \in Req : \A i \in 1..Len(req'[r].calls) :
             req'[r].calls[i][1] \in {"fetchSessionFromJoBot", "saveSessionToJoBot"}
               => req'[r].calls[i][2] = "disabled"
        /\ deviceDB' = deviceDB]_vars

\* with JO_BOT_URL set and a key that is not usable, a session was created,
\* an explicit save has returned, and decrypt has failed
C21_Witness ==
  /\ crypt.url /\ crypt.keyB64 # <<>> /\ crypt.key = <<>>
  /\ crypt.stage = "decrypted" /\ crypt.err # "nil"
  /\ \E u \in Users : sessions[u] # NoSession
  /\ \E r \in Req : /\ req[r].op = "saveSession" /\ req[r].pc = "return"
                     /\ req[r].calls = <<<<"saveSessionToJoBot", "disabled">>>>

\* C22: a POST /media/download that reaches the download makes Download
\* calls only, goes on after a failed or empty one, stops at the first that
\* returns data and answers with it, and answers 500 only after 5 attempts
C22_FiveDownloadAttempts ==
  \A r \in Req :
    (req[r].op = "downloadMedia" /\ req[r].pc = "return" /\ req[r].calls # <<>>) =>
      LET c == req[r].calls
          n == Len(c) IN
      /\ \A i \in 1..n : c[i][1] = "Download"
      /\ \A i \in 1..(n - 1) : c[i][2] \in {"failed", "empty"}
      /\ IF c[n][2] = "nil" THEN req[r].resp = "200"
                            ELSE (n = 5 /\ req[r].resp = "500")

\* C25: a Message event with an AudioMessage enqueues a payload whose
\* media type is "ptt" for a push-to-talk audio and "audio" otherwise, and
\* whose is_ptt field says which (the queue has room in every state of
\* SpecEvt)
C25_AudioPayload ==
  (/\ lastEvt.sid # NoSession /\ IsMessage(lastEvt.evt)
   /\ lastEvt.evt.Message.Audio # Nil)
  => /\ lastEvt.accepted = 1
     /\ LET q == enqLog[lastEvt.sid]
            p == q[Len(q)].Payload
            ptt == lastEvt.evt.Message.Audio[1].PTT IN
          /\ p.MediaType = (IF ptt THEN "ptt" ELSE "audio")
          /\ "IsPTT" \in DOMAIN p
          /\ p.IsPTT = ptt

\* C26: a message with a LocationMessage and no other content enqueues a
\* payload of media type "location" whose text is "{name} - {address}" when
\* name and address are both non-empty, and otherwise the one of them that is
\* non-empty, without the separator
C26_LocationText ==
  (/\ lastEvt.sid # NoSession /\ IsMessage(lastEvt.evt)
   /\ lastEvt.evt.Message.Location # Nil
   /\ lastEvt.evt.Message = [EmptyMessage EXCEPT !.Location = lastEvt.evt.Message.Location])
  => LET loc == lastEvt.evt.Message.Location[1]
         name == IF loc.Name = Nil THEN <<>> ELSE loc.Name[1]
         addr == IF loc.Address = Nil THEN <<>> ELSE loc.Address[1]
         q == enqLog[lastEvt.sid] IN
     /\ lastEvt.accepted = 1
     /\ q[Len(q)].Payload.MediaType = "location"
     /\ q[Len(q)].Payload.Text =
          (IF name # <<>> /\ addr # <<>> THEN name \o <<" - ">> \o addr
           ELSE IF name # <<>> THEN name ELSE addr)

\* C27: every session in the sessions map, and every session an HTTP
\* handler has obtained from the manager, has its event handler registered
\* on its upstream client
C27_HandlerBeforeVisible ==
  /\ \A u \in UserIDs :
       sessions[u] # NoSession => eventHandlers[sessions[u]]
  /\ \A r \in Req :
       req[r].sid # NoSession => eventHandlers[req[r].sid]

\* a chat handler holds a session it got from GetSession, created in this
\* run by another request, and the session's event handler is registered
C27_Witness ==
  \E r \in Req :
    /\ req[r].op \in UpstreamHandlers
    /\ req[r].pc = "h_login"
    /\ req[r].sid # NoSession
    /\ sessions[req[r].user] = req[r].sid
    /\ eventHandlers[req[r].sid]

\* C28: while a session is in the map, its store handle is the only one
\* open on its user's device DB file: no handle of a session removed earlier
\* is still open
C28_ExclusiveStoreHandle ==
  \A u \in UserIDs :
    sessions[u] # NoSession =>
      \A s \in 1..nsess :
        (UserID[s] = u /\ Container[s]) => s = sessions[u]

\* C29: when the process exits on SIGINT or SIGTERM, every session in the
\* sessions map has been disconnected and its backup flushed: main has called
\* Disconnect and saveSessionToJoBot for it, and its client is not connected
C29_TeardownOnSignal ==
  [][(main.pc = "serving" /\ main'.pc = "exited") =>
       \A u \in UserIDs :
         sessions[u] # NoSession =>
           /\ ~connected'[sessions[u]]
           /\ \E i \in DOMAIN main'.calls : main'.calls[i] = <<"Disconnect", u>>
           /\ \E i \in DOMAIN main'.calls : main'.calls[i] = <<"saveSessionToJoBot", u>>]_vars

\* C30: a POST /messages/image that has answered called Upload before
\* SendMessage; if Upload failed the answer is 500 and SendMessage was not
\* called; an answer of 200 follows exactly one successful Upload and then
\* exactly one successful SendMessage
C30_UploadThenSend ==
  \A r \in Req :
    (req[r].op = "sendImage" /\ req[r].pc = "return") =>
      LET c == req[r].calls IN
      /\ \A i \in DOMAIN c :
           c[i][1] = "SendMessage" =>
             /\ i > 1
             /\ \A j \in 1..(i - 1) : c[j] = <<"Upload", NoErr>>
      /\ (\E i \in DOMAIN c : c[i] = <<"Upload", "failed">>) =>
           /\ req[r].resp = "500"
           /\ \A i \in DOMAIN c : c[i][1] # "SendMessage"
      /\ req[r].resp = "200" =>
           c = <<<<"Upload", NoErr>>, <<"SendMessage", NoErr>>>>

\* a POST /messages/image has answered 500 after its Upload call failed,
\* with no SendMessage call
C30_Witness ==
  \E r \in Req :
    /\ req[r].op = "sendImage" /\ req[r].pc = "return"
    /\ req[r].resp = "500"
    /\ req[r].calls = <<<<"Upload", "failed">>>>

C32_ExclusiveLastUsedWrite ==
  \A s \in 1..nsess : Cardinality(LastUsed[s]) <= 1

\* the ids of the payloads that events of the clients of user u's sessions
\* have produced
OriginIDs(u) ==
  UNION {{enqLog[s][j].Payload.ID : j \in DOMAIN enqLog[s]} :
           s \in {x \in 1..nsess : UserID[x] = u}}

\* C33: every payload in a session's queue, and every frame an /events
\* stream of user U has written, comes from an event delivered to a client of
\* U: no stream emits a payload that originated from another user's client
C33_EventsStayWithTheirUser ==
  /\ \A s \in 1..nsess : \A j \in DOMAIN EventChan[s] :
       EventChan[s][j].Payload.ID \in OriginIDs(UserID[s])
  /\ \A r \in Req : req[r].op = "events" =>
       \A i \in DOMAIN req[r].frames :
         req[r].frames[i].data.payload.id \in OriginIDs(req[r].user)

\* two users have sessions, an event was delivered to the client of one of
\* them, and the /events stream of the other has written a frame
C33_Witness ==
  \E r \in Req, s \in 1..nsess :
    /\ req[r].op = "events" /\ req[r].frames # <<>>
    /\ UserID[s] # req[r].user
    /\ sessions[UserID[s]] = s
    /\ enqLog[s] # <<>>

\* C34: once a user's session has been removed and a new one created, no
\* /events or /sessions/qr stream opened before the removal is still bound
\* to the removed session: no /events stream waits on the removed session's
\* queue while events of the new session lie undelivered, and no QR stream
\* is still served from the removed session
C34_StreamsLeaveRemovedSession ==
  \A r \in Req :
    LET new == sessions[req[r].user] IN
    /\ (req[r].pc = "events" /\ new # NoSession /\ EventChan[new] # <<>>)
         => req[r].sid = new
    /\ (req[r].pc = "qr" /\ new # NoSession) => req[r].sid = new

\* C35: at most one pairing pump goroutine per session is running at any
\* time
C35_OnePumpPerSession ==
  \A s \in 1..nsess :
    Cardinality({p \in DOMAIN pumps :
                   pumps[p].sid = s /\ pumps[p].pc = "running"}) <= 1

\* C36: every pairing pump goroutine that was spawned eventually terminates
C36_PumpsTerminate ==
  \A p \in 1..(MaxPumps + 1) :
    (Len(pumps) >= p) ~> (Len(pumps) >= p /\ pumps[p].pc = "exited")

\* a pump of session s has recorded a pairing success on LoginDone
SuccessRecorded(s) ==
  \E p \in DOMAIN pumps : pumps[p].sid = s /\ pumps[p].atSuccess # -1

\* C37: once a pump has recorded a pairing success for a session, the
\* success stays available to every QR stream of that session, open then or
\* opened later: no QR stream ends with the timeout frame after the success
\* it should have emitted was used up by another stream
C37_SuccessReachesEveryStream ==
  [][\A r \in Req :
       (/\ req[r].op = "getQR" /\ req[r].pc = "qr"
        /\ req'[r].pc # "qr" /\ req'[r].resp = "timeout"
        /\ SuccessRecorded(req[r].sid))
       => LoginDone[req[r].sid] # <<>>]_vars

\* C38: when a user's session was removed with its backup save failed or
\* skipped, so that the remote backup is not a copy of the local device DB,
\* a later GetOrCreateSession for that user opens the contents the DB had at
\* the removal: the restore does not replace them with the older backup
C38_RestoreKeepsLocalDB ==
  [][\A r \in Req :
       LET u == req[r].user IN
       (/\ req[r].pc = "goc_create" /\ req'[r].pc # "goc_create"
        /\ \E s \in 1..nsess : UserID[s] = u
        /\ backup[u] # DBCopy(deviceDB[u]))
       => deviceDB'[u] = deviceDB[u]]_vars

\* C39: in the inbound monitor, once the abort signal has fired no event
\* source is created any more, at most one event source is open (not closed)
\* at any time, and reconnectAttempts is 0 after every successful open and
\* every received message.
C39_MonitorStopsOnAbort ==
  /\ [](Cardinality(LiveSources) <= 1)
  /\ [][/\ monitor.aborted => Len(monitor'.es) = Len(monitor.es)
        /\ (\E e \in DOMAIN monitor.es :
              /\ monitor.es[e] # "closed"
              /\ monitor'.es[e] = "open"
              /\ (monitor.es[e] = "connecting" \/ monitor'.received # monitor.received)
              /\ monitor'.timers = monitor.timers
              /\ Len(monitor'.es) = Len(monitor.es)
              /\ monitor'.aborted = monitor.aborted)
           => monitor'.reconnectAttempts = 0]_vars

====
